---- MODULE Spec2Model ----
(***************************************************************************)
(* AssetForge: export operator, validation engine, scene-touching rule     *)
(* functions and the shader-parameter classifier, modelled from src/.      *)
(*                                                                         *)
(* Specifications                                                          *)
(*   Spec            AF_OT_export.execute as the code runs it, called on   *)
(*                   any scene and settings.                               *)
(*   SpecValidation  the rule loop of generate_validation_data (lines      *)
(*                   70-88) followed by the try block of execute (lines    *)
(*                   256-273), for every combination of rule outcomes.     *)
(*   SpecScene       the rule functions and the statistics functions,      *)
(*                   called one after another on one object.               *)
(*   SpecMaterials   get_material_data and _classify_shader_input.         *)
(***************************************************************************)
EXTENDS Integers, Sequences, FiniteSets, TLC

\* ------------------------------------------------------------- bounds
\* longest message list a multi-message rule returns
MaxMsgs == 2
\* longest name handed to a function of validation/naming.py
MaxNameLen == 4
\* longest dotted key handed to config.get_setting / save_setting
MaxKeyLen == 3
\* save_setting calls per behaviour
MaxSaves == 1

\* ------------------------------------------------------------- values
\* Python's None, where the other values are strings
None == "None"
\* Python's None, where the other values are records: Nothing, or Just(x)
Nothing == <<>>
Just(x) == <<x>>
The(m) == m[1]

\* characters of object names: letters, the underscore of the prefixes, and
\* a blank as the one character illegal in an engine asset name
LegalChars == {"S", "M", "T", "I", "_", "a"}
Chars == LegalChars \cup {" "}

\* object names of the modelled scenes: "SM_a", "a", "a a"
ObjectNames == { <<"S", "M", "_", "a">>, <<"a">>, <<"a", " ", "a">> }

VARIABLES
    pc,             \* control position of the operation in progress
    settings,       \* context.scene.af: import_strictness, asset_type, export_ext
    obj,            \* bpy.context.active_object, or None
    selected,       \* the selected objects of the scene
    outcomes,       \* what r.check(obj_data) returns, per rule
    rule_idx,       \* position of the loop "for r in rules"
    error_items,    \* generate_validation_data: error_items
    warning_items,  \* generate_validation_data: warning_items
    mesh_data,      \* execute: mesh_data (the manifest), None before it exists
    files,          \* files of the export directory
    popen_calls,    \* manifest paths handed to subprocess.Popen
    report,         \* what execute reported / returned, or the escaped exception
    platform,       \* sys.platform
    ctx,            \* the context object handed to a rule function (without obj)
    config,         \* the settings of config/settings.json that the rules read
    mode,           \* obj.mode, the interaction mode of the active object
    mesh_select,    \* which elements of the edit mesh are selected
    fn,             \* the function called last (or in progress)
    entry_mode,     \* obj.mode when the call in progress began
    prev_mode,      \* validate_mesh_manifold: prev_mode
    mode_set_calls, \* the modes passed to bpy.ops.object.mode_set by this call
    held,           \* evaluated meshes obtained with to_mesh and not yet cleared
    to_mesh_calls,  \* successful obj_eval.to_mesh() calls of this call
    to_mesh_clear_calls, \* obj_eval.to_mesh_clear() calls of this call
    pending,        \* what the try block computed, delivered after finally
    sock,           \* the socket handed to _classify_shader_input, if called
    slot_idx,       \* get_material_data: position in obj.material_slots
    materials,      \* get_material_data: materials
    ret,            \* what the last call returned or raised
    raw_name,       \* the name handed to a function of validation/naming.py
    ue_pc,          \* control position of the engine process running ue_import.py
    ue_cmd,         \* the flags of the engine's command line
    ue_data,        \* ingest_asset: data, the manifest read from disk
    ue_idx,         \* ingest_asset: position in material_data
    ue_calls,       \* the engine-side calls made by ue_import.py, in order
    ue_ret,         \* what main() returned or raised
    disk_textures,  \* the image files that exist on disk
    cache,          \* config._settings_cache, None or the settings dictionary
    settings_json,  \* the content of config/settings.json, None when missing
    cfg_pc,         \* control position of the call into config in progress
    cfg_call,       \* that call: function, arguments, position, what it found
                    \* on entry, and its result
    last_save,      \* the key and value of the last save_setting that returned
    cfg_saves       \* number of save_setting calls so far

\* the state of the operations outside the export run
ueVars == <<ue_pc, ue_cmd, ue_data, ue_idx, ue_calls, ue_ret, disk_textures>>
cfgVars == <<cache, settings_json, cfg_pc, cfg_call, last_save, cfg_saves>>
extVars == <<raw_name, ueVars, cfgVars>>
runVars == <<settings, obj, selected, mesh_data, files, popen_calls, report,
             platform>>
loopVars == <<outcomes, rule_idx, error_items, warning_items>>
sceneVars == <<ctx, config, mode, mesh_select, fn, entry_mode, prev_mode, mode_set_calls,
               held, to_mesh_calls, to_mesh_clear_calls, pending, sock,
               slot_idx, materials, ret, extVars>>
vars == <<pc, runVars, loopVars, sceneVars>>

\* ------------------------------------------------------------- settings
\* asset_forge.py: AF_Settings.import_strictness
ImportStrictness == {"ERRORS_ONLY", "ERRORS_AND_WARNINGS", "DO_NOT_IMPORT"}
\* asset_forge.py: AF_Settings.asset_type
AssetTypes == {"PROP_SMALL", "HERO_PROP", "MODULAR"}
\* asset_forge.py: AF_Settings.export_ext
ExportExts == {"fbx", "obj"}

Settings == [import_strictness : ImportStrictness,
             asset_type : AssetTypes,
             export_ext : ExportExts]

\* ------------------------------------------------------------- naming
\* validation/naming.py is not part of src/: modelled from the specification
\* (section 4.1).
mesh_prefix == <<"S", "M", "_">>

\* an equality test in place of startswith
validate_prefix_mut(prefix, name) == name = prefix

validate_prefix(prefix, name) ==
    /\ Len(name) >= Len(prefix)
    /\ SubSeq(name, 1, Len(prefix)) = prefix

\* replaces every character illegal in an asset name
sanitize(name) == [i \in 1..Len(name) |->
                     IF name[i] \in LegalChars THEN name[i] ELSE "_"]

normalize_mesh_name(name) ==
    IF validate_prefix(mesh_prefix, sanitize(name))
    THEN sanitize(name)
    ELSE mesh_prefix \o sanitize(name)

texture_prefix == <<"T", "_">>
material_instance_prefix == <<"M", "I", "_">>

normalize_texture_name(name) ==
    IF validate_prefix(texture_prefix, sanitize(name))
    THEN sanitize(name)
    ELSE texture_prefix \o sanitize(name)

normalize_material_instance_name(name) ==
    IF validate_prefix(material_instance_prefix, sanitize(name))
    THEN sanitize(name)
    ELSE material_instance_prefix \o sanitize(name)

\* ------------------------------------------------------------- files
\* a path of the export directory: "<export_dir>/<stem>.<ext>"
File(stem, ext) == [stem |-> stem, ext |-> ext]

\* open(path, "w") / an exporter writing path: creates or overwrites
WriteFile(fs, path, content) ==
    [p \in DOMAIN fs \cup {path} |-> IF p = path THEN content ELSE fs[p]]

\* a copy in place of a rename: src stays
RenameFile_mut(fs, src, dst) ==
    [p \in DOMAIN fs \cup {dst} |-> IF p = dst THEN fs[src] ELSE fs[p]]

\* os.rename succeeds: src disappears, dst holds its content
RenameFile(fs, src, dst) ==
    [p \in (DOMAIN fs \ {src}) \cup {dst} |-> IF p = dst THEN fs[src] ELSE fs[p]]

\* os.rename raises: no source, or (Windows only) the destination exists
RenameRaises(fs, src, dst, plat) ==
    \/ src \notin DOMAIN fs
    \/ plat = "win32" /\ dst \in DOMAIN fs /\ dst # src

Platforms == {"linux", "win32"}

\* what the export directory holds at a path
ManifestFile(data) == [kind |-> "manifest", data |-> Just(data), format |-> "json"]
GeometryFile(ext) == [kind |-> "geometry", data |-> Nothing, format |-> ext]
\* a file opened for writing whose content was not written, or not to the
\* end: empty or cut, and no JSON
CutFile == [kind |-> "cut", data |-> Nothing, format |-> "json"]

\* ------------------------------------------------------------- reports
NoReport == [level |-> None, message |-> None, returned |-> None, raised |-> None]
\* self.report({"INFO"}, f"Exported: ..."); return {"FINISHED"}
Finished == [level |-> "INFO", message |-> "Exported", returned |-> "FINISHED",
             raised |-> None]
\* except Exception as e: self.report({"ERROR"}, str(e)); return {"CANCELLED"}
Cancelled(e) == [level |-> "ERROR", message |-> e, returned |-> "CANCELLED",
                 raised |-> None]
\* an exception leaving execute: nothing reported, nothing returned
Escaped(exc) == [level |-> None, message |-> None, returned |-> None, raised |-> exc]

\* ------------------------------------------------------------- results of calls
\* a call that returned value (a sequence: a message list, or one result)
Ret(value) == [raised |-> None, value |-> value]
\* a call left by exception exc
Raise(exc) == [raised |-> exc, value |-> <<>>]
\* one message of a rule: its text, and the name it is about
Msg(text) == [text |-> text, subject |-> <<>>]
MsgAbout(text, subject) == [text |-> text, subject |-> subject]

\* the variables of extVars in a behaviour of the export run
UeUnused ==
    /\ ue_pc = "off"
    /\ ue_cmd = <<>>
    /\ ue_data = Nothing
    /\ ue_idx = 1
    /\ ue_calls = <<>>
    /\ ue_ret = Ret(<<>>)
    /\ disk_textures = {}

\* no call into config was made
NoCall == [fn |-> None, key_path |-> <<>>, value |-> 0, pos |-> 1,
           current |-> <<>>, entry_view |-> Nothing, entry_json |-> Nothing,
           result |-> Ret(<<>>)]

CfgUnused ==
    /\ cache = Nothing
    /\ settings_json = Nothing
    /\ cfg_pc = "idle"
    /\ cfg_call = NoCall
    /\ last_save = Nothing
    /\ cfg_saves = 0

ExtUnused ==
    /\ raw_name = <<>>
    /\ UeUnused
    /\ CfgUnused

\* the scene variables of a behaviour in which no rule function is called
SceneUnused ==
    /\ ctx = [has_obj_type |-> FALSE, obj_type |-> None, materials |-> <<>>,
              images |-> <<>>]
    /\ config = [max_triangles |-> Nothing, max_texture_size |-> Nothing,
                 unit |-> 0]
    /\ mode = "OBJECT"
    /\ mesh_select = "user"
    /\ fn = None
    /\ entry_mode = "OBJECT"
    /\ prev_mode = None
    /\ mode_set_calls = <<>>
    /\ held = 0
    /\ to_mesh_calls = 0
    /\ to_mesh_clear_calls = 0
    /\ pending = Ret(<<>>)
    /\ sock = Nothing
    /\ slot_idx = 1
    /\ materials = <<>>
    /\ ret = Ret(<<>>)
    /\ ExtUnused

\* Python binds a positional call to parameters without defaults only when
\* the counts agree; otherwise the call raises TypeError before the body runs
Binds(args, params) == Len(args) = Len(params)

\* ------------------------------------------------------------- scene data
\* an evaluated (or raw) mesh: vertex coordinates in hundredths of a scene
\* unit, the number of edges, and each polygon's number of vertices
NoGeometry == [vertices |-> <<>>, edges |-> 0, polygons |-> <<>>]
\* a quad of 0.1 x 0.2 with its corner on the origin
Quad == [vertices |-> << <<0, 0, 0>>, <<10, 0, 0>>, <<10, 20, 0>>, <<0, 20, 0>> >>,
         edges |-> 4, polygons |-> <<4>>]
\* a pyramid 0.95 wide
Pyramid == [vertices |-> << <<0, 0, 0>>, <<95, 0, 0>>, <<95, 10, 0>>, <<0, 10, 0>>,
                            <<40, 5, 10>> >>,
            edges |-> 8, polygons |-> <<4, 3, 3, 3, 3>>]
\* a triangle whose corner is off the origin
OffsetTriangle == [vertices |-> << <<5, 0, 0>>, <<15, 0, 0>>, <<15, 10, 0>> >>,
                   edges |-> 3, polygons |-> <<3>>]

\* the objects the rule functions are called on: data is obj.data, eval what
\* obj.evaluated_get(depsgraph).to_mesh() yields. A mesh that passes every
\* rule on its own attributes, one that fails each of them, and an empty
CleanMesh(eval) ==
    [type |-> "MESH", name |-> <<"S", "M", "_", "a">>, uv_layers |-> TRUE,
     non_manifold |-> FALSE, materials |-> TRUE, data |-> Quad, eval |-> eval]
BareMesh(eval) ==
    [type |-> "MESH", name |-> <<"a">>, uv_layers |-> FALSE,
     non_manifold |-> TRUE, materials |-> FALSE, data |-> Pyramid, eval |-> eval]
EmptyObject ==
    [type |-> "EMPTY", name |-> <<"a">>, uv_layers |-> FALSE,
     non_manifold |-> FALSE, materials |-> FALSE, data |-> NoGeometry,
     eval |-> NoGeometry]
EvaluatedMeshes == {NoGeometry, Quad, Pyramid, OffsetTriangle}
RuleObjects ==
    {CleanMesh(e) : e \in EvaluatedMeshes} \cup {BareMesh(e) : e \in EvaluatedMeshes}
    \cup {EmptyObject}

\* images of the context: a square one within budget, a wide one over it
SquareImage == [name |-> <<"T", "_", "a">>, size |-> <<2, 2>>]
WideImage == [name |-> <<"a">>, size |-> <<4, 2>>]

\* the contexts handed to a rule function. validation_types.ValidationContext
\* has the fields obj, materials, images; rule functions also read obj_type,
\* which only a caller's own context object can carry
RuleContexts ==
    [has_obj_type : {TRUE}, obj_type : AssetTypes,
     materials : { <<>> }, images : { <<>> }]
    \cup [has_obj_type : {TRUE}, obj_type : AssetTypes,
          materials : { <<[name |-> <<"a">>]>> },
          images : { <<SquareImage, WideImage>> }]
    \cup [has_obj_type : {FALSE}, obj_type : {None},
          materials : { <<>> }, images : { <<>>, <<SquareImage, WideImage>> }]

\* settings.json as the rules read it: the budgets of the run's asset type
\* (absent, or 2 triangles and 2 pixels) and modular_mesh_units.unit
RuleConfigs ==
    { [max_triangles |-> Just(2), max_texture_size |-> Just(2), unit |-> 10],
      [max_triangles |-> Nothing, max_texture_size |-> Nothing, unit |-> 0] }

\* the argument of a rule function: the context with its object
obj_data == [obj |-> The(obj), has_obj_type |-> ctx.has_obj_type,
             obj_type |-> ctx.obj_type, materials |-> ctx.materials,
             images |-> ctx.images]

\* ------------------------------------------------------------- rules without side effect
validate_mesh_uv(validation_data) ==
    IF validation_data.obj.type # "MESH"
    THEN Ret(<<Msg("Error validating UVs. Asset is not a mesh.")>>)
    ELSE IF validation_data.obj.uv_layers
    THEN Ret(<<>>)
    ELSE Ret(<<Msg("Asset is missing UVs.")>>)

validate_mesh_materials(validation_data) ==
    IF validation_data.obj.type # "MESH"
    THEN Ret(<<Msg("Error validating materials. Asset is not a mesh.")>>)
    ELSE IF validation_data.obj.materials
    THEN Ret(<<>>)
    ELSE Ret(<<Msg("Mesh does not have any assigned materials.")>>)

\* one message per item whose name lacks the prefix, in item order
RECURSIVE PrefixMessages(_, _, _)
PrefixMessages(items, prefix, text) ==
    IF items = <<>> THEN <<>>
    ELSE (IF validate_prefix(prefix, Head(items).name) THEN <<>>
          ELSE <<MsgAbout(text, Head(items).name)>>)
         \o PrefixMessages(Tail(items), prefix, text)

validate_file_names(validation_data) ==
    Ret(PrefixMessages(<<validation_data.obj>>, mesh_prefix, "Static mesh does not start with the required prefix")
        \o PrefixMessages(validation_data.images, texture_prefix, "Texture does not start with the required prefix")
        \o PrefixMessages(validation_data.materials, material_instance_prefix,
                          "Material does not start with the required prefix"))

\* one message per image whose width differs from its height; the message
\* divides the width by the height
RECURSIVE AspectMessages(_)
AspectMessages(images) ==
    IF images = <<>> THEN <<>>
    ELSE (IF Head(images).size[1] # Head(images).size[2]
          THEN <<MsgAbout("Image texture does not have a square aspect ratio", Head(images).name)>> ELSE <<>>)
         \o AspectMessages(Tail(images))

validate_texture_aspect_ratio(validation_data) ==
    IF \E i \in 1..Len(validation_data.images) :
          /\ validation_data.images[i].size[1] # validation_data.images[i].size[2]
          /\ validation_data.images[i].size[2] = 0
    THEN Raise("ZeroDivisionError")
    ELSE Ret(AspectMessages(validation_data.images))

RECURSIVE SizeMessages(_, _)
SizeMessages(images, budget) ==
    IF images = <<>> THEN <<>>
    ELSE (IF Head(images).size[1] > budget
          THEN <<MsgAbout("Image texture exceeds the size budget", Head(images).name)>> ELSE <<>>)
         \o SizeMessages(Tail(images), budget)

\* the budget is read first (AttributeError without obj_type); an absent
\* budget is None, which no width can be compared with
validate_texture_size(validation_data) ==
    IF ~validation_data.has_obj_type THEN Raise("AttributeError")
    ELSE IF validation_data.images = <<>> THEN Ret(<<>>)
    ELSE IF config.max_texture_size = Nothing THEN Raise("TypeError")
    ELSE Ret(SizeMessages(validation_data.images, The(config.max_texture_size)))

\* ------------------------------------------------------------- calls of rule functions
\* the variables no rule function writes
ruleFrame == <<runVars, loopVars, ctx, config, sock, slot_idx, materials, extVars>>

\* a function is called while none is in progress
BeginCall(f) ==
    /\ pc = "idle"
    /\ fn' = f
    /\ entry_mode' = mode

\* a call of a function without side effect returns at once
CallPure(f, result) ==
    /\ BeginCall(f)
    /\ ret' = result
    /\ pc' = "idle"
    /\ mode_set_calls' = <<>>
    /\ to_mesh_calls' = 0
    /\ to_mesh_clear_calls' = 0
    /\ UNCHANGED <<mode, mesh_select, prev_mode, held, pending>>
    /\ UNCHANGED ruleFrame

call_validate_mesh_uv ==
    CallPure("validate_mesh_uv", validate_mesh_uv(obj_data))

call_validate_mesh_materials ==
    CallPure("validate_mesh_materials", validate_mesh_materials(obj_data))

call_validate_file_names ==
    CallPure("validate_file_names", validate_file_names(obj_data))

call_validate_texture_aspect_ratio ==
    CallPure("validate_texture_aspect_ratio", validate_texture_aspect_ratio(obj_data))

call_validate_texture_size ==
    CallPure("validate_texture_size", validate_texture_size(obj_data))

\* the fields of validation_types.ValidationContext
ValidationContext_fields == <<"obj", "materials", "images">>

\* _build_context: vt.ValidationContext(obj, asset_type, mats, images)
build_context_args == <<"obj", "asset_type", "mats", "images">>

\* generate_validation_data(obj, asset_type): _build_context runs first, and
\* the constructor call raises before any rule is called
generate_validation_data ==
    IF Binds(build_context_args, ValidationContext_fields)
    THEN Ret(<<>>)
    ELSE Raise("TypeError")

call_generate_validation_data ==
    CallPure("generate_validation_data", generate_validation_data)

\* ------------------------------------------------------------- validate_mesh_manifold
Modes == {"OBJECT", "EDIT", "SCULPT"}

\* lines 28-33: the type test, prev_mode, and the switch to edit mode, which
\* the host may refuse (the call then raises before the try block)
validate_mesh_manifold_enter ==
    /\ BeginCall("validate_mesh_manifold")
    /\ to_mesh_calls' = 0
    /\ to_mesh_clear_calls' = 0
    /\ IF The(obj).type # "MESH"
       THEN /\ ret' = Ret(<<Msg("Error checking if asset is manifold. Asset is not a mesh.")>>)
            /\ pc' = "idle"
            /\ mode_set_calls' = <<>>
            /\ UNCHANGED <<mode, prev_mode>>
       ELSE /\ prev_mode' = mode
            /\ IF mode # "EDIT"
               THEN /\ mode_set_calls' = <<"EDIT">>
                    /\ \E ok \in BOOLEAN :
                         IF ok
                         THEN mode' = "EDIT" /\ pc' = "manifold_try" /\ ret' = ret
                         ELSE mode' = mode /\ pc' = "idle"
                              /\ ret' = Raise("RuntimeError")
               ELSE /\ mode_set_calls' = <<>>
                    /\ mode' = mode
                    /\ pc' = "manifold_try"
                    /\ ret' = ret
    /\ UNCHANGED <<mesh_select, held, pending>>
    /\ UNCHANGED ruleFrame

\* the selection of the edit mesh: "user" is what the user had selected (some
\* element), "none" an empty selection, "non_manifold" the elements that
\* select_non_manifold selected
\* the selection left as it is
deselect_all_mut(selection) == selection

\* lines 44-49: select = False on every vertex, edge and face
deselect_all(selection) == "none"

\* line 51: bpy.ops.mesh.select_non_manifold() adds the non-manifold vertices
\* and edges of the mesh to the selection
select_non_manifold(selection, o) ==
    IF selection = "none" /\ o.non_manifold THEN "non_manifold" ELSE selection

\* line 53: any vertex or edge selected
has_nonmanifold(selection) == selection # "none"

\* the non-manifold elements deleted from the edit mesh
edit_mesh_geometry_mut(o) == IF o.non_manifold THEN NoGeometry ELSE o.data

\* lines 40-53: the vertices, edges and faces of the edit mesh after the try
\* block, which writes select flags and nothing else
edit_mesh_geometry(o) == o.data

\* lines 35-59, the try block: every element is deselected, the non-manifold
\* ones are selected, and the selection of vertices and edges is read; a host
\* call may raise on the way
validate_mesh_manifold_try ==
    /\ pc = "manifold_try"
    /\ \E raises \in {"from_edit_mesh", "select_non_manifold", None} :
         IF raises = "from_edit_mesh"
         THEN mesh_select' = mesh_select /\ pending' = Raise("Exception")
              /\ obj' = obj
         ELSE IF raises = "select_non_manifold"
         THEN mesh_select' = deselect_all(mesh_select) /\ pending' = Raise("Exception")
              /\ obj' = obj
         ELSE /\ mesh_select' = select_non_manifold(deselect_all(mesh_select), The(obj))
              /\ obj' = Just([The(obj) EXCEPT !.data = edit_mesh_geometry(The(obj))])
              /\ pending' = IF has_nonmanifold(mesh_select')
                            THEN Ret(<<Msg("Mesh is not manifold")>>)
                            ELSE Ret(<<>>)
    /\ pc' = "manifold_finally"
    /\ UNCHANGED <<mode, fn, entry_mode, prev_mode, mode_set_calls, held,
                   to_mesh_calls, to_mesh_clear_calls, ret>>
    /\ UNCHANGED <<settings, selected, mesh_data, files, popen_calls, report,
                   platform, loopVars, ctx, config, sock, slot_idx, materials,
                   extVars>>

\* lines 58-60, the finally clause: the mode the object is left in. When
\* prev_mode is not EDIT, bpy.ops.object.mode_set(mode=prev_mode) is called,
\* and the host carries it out (done) or refuses it, as at line 33: the
\* object then stays in the mode it is in
RestoredMode(prev, current, done) ==
    IF prev # "EDIT" /\ done THEN prev ELSE current

\* a refused mode_set raises RuntimeError out of the finally clause, in place
\* of what the try block returned or raised
validate_mesh_manifold_finally ==
    /\ pc = "manifold_finally"
    /\ \E done \in (IF prev_mode # "EDIT" THEN BOOLEAN ELSE {TRUE}) :
         /\ mode' = RestoredMode(prev_mode, mode, done)
         /\ ret' = IF done THEN pending ELSE Raise("RuntimeError")
    /\ mode_set_calls' = IF prev_mode # "EDIT"
                         THEN Append(mode_set_calls, prev_mode)
                         ELSE mode_set_calls
    /\ pc' = "idle"
    /\ UNCHANGED <<mesh_select, fn, entry_mode, prev_mode, held, to_mesh_calls,
                   to_mesh_clear_calls, pending>>
    /\ UNCHANGED ruleFrame

\* ------------------------------------------------------------- evaluated meshes
\* one triangle per polygon vertex beyond the third
RECURSIVE tri_count_mut(_)
tri_count_mut(polygons) ==
    IF polygons = <<>> THEN 0
    ELSE (Head(polygons) - 3) + tri_count_mut(Tail(polygons))

\* sum(len(p.vertices) - 2 for p in mesh_eval.polygons)
RECURSIVE tri_count(_)
tri_count(polygons) ==
    IF polygons = <<>> THEN 0
    ELSE (Head(polygons) - 2) + tri_count(Tail(polygons))

\* the dictionary both statistics functions build inside their try block
mesh_stats(mesh_eval) ==
    [vertices |-> Len(mesh_eval.vertices), edges |-> mesh_eval.edges,
     faces |-> Len(mesh_eval.polygons),
     triangles |-> tri_count(mesh_eval.polygons)]

\* generate_metadata lines 210-215: the statistics of obj.data
original_stats(obj_data_mesh) ==
    [vertices |-> Len(obj_data_mesh.vertices), edges |-> obj_data_mesh.edges,
     faces |-> Len(obj_data_mesh.polygons),
     triangles |-> tri_count(obj_data_mesh.polygons)]

\* obj_eval.to_mesh(...): the host hands out a temporary mesh, or raises (it
\* always raises for an object without geometry); next_pc is the try block
to_mesh(next_pc) ==
    \E ok \in BOOLEAN :
       IF ok /\ The(obj).type = "MESH"
       THEN /\ held' = held + 1
            /\ to_mesh_calls' = 1
            /\ pc' = next_pc
            /\ ret' = ret
       ELSE /\ held' = held
            /\ to_mesh_calls' = 0
            /\ pc' = "idle"
            /\ ret' = Raise("RuntimeError")

\* the finally clause of the three acquiring functions: the number of
\* temporary meshes still held once the try block is left with result
to_mesh_clear_mut(h, result) == IF result.raised = None THEN h - 1 ELSE h

to_mesh_clear(h, result) == h - 1

\* what a function's try and finally steps leave alone
tryFrame == <<mode, mesh_select, fn, entry_mode, prev_mode, mode_set_calls,
              held, to_mesh_calls, to_mesh_clear_calls, ret>>
finallyFrame == <<mode, mesh_select, fn, entry_mode, prev_mode, mode_set_calls,
                  to_mesh_calls, pending>>

\* the release itself, followed by what the caller makes of the result
Finally(result) ==
    /\ held' = to_mesh_clear(held, pending)
    /\ to_mesh_clear_calls' = to_mesh_clear_calls + (held - held')
    /\ ret' = result
    /\ pc' = "idle"
    /\ UNCHANGED finallyFrame
    /\ UNCHANGED ruleFrame

\* mesh_metadata.get_evaluated_mesh_stats, lines 16-19
get_evaluated_mesh_stats_call ==
    /\ BeginCall("get_evaluated_mesh_stats")
    /\ mode_set_calls' = <<>>
    /\ to_mesh_clear_calls' = 0
    /\ to_mesh("stats_try")
    /\ UNCHANGED <<mode, mesh_select, prev_mode, pending>>
    /\ UNCHANGED ruleFrame

\* lines 21-33: the try block, which a host read may leave by exception
get_evaluated_mesh_stats_try ==
    /\ pc = "stats_try"
    /\ \E ok \in BOOLEAN :
         pending' = IF ok THEN Ret(<<mesh_stats(The(obj).eval)>>)
                    ELSE Raise("Exception")
    /\ pc' = "stats_finally"
    /\ UNCHANGED tryFrame
    /\ UNCHANGED ruleFrame

\* lines 34-35
get_evaluated_mesh_stats_finally ==
    /\ pc = "stats_finally"
    /\ Finally(pending)

\* generate_metadata lines 210-215 on the active mesh object
call_original_stats ==
    /\ The(obj).type = "MESH"
    /\ CallPure("original_stats", Ret(<<original_stats(The(obj).data)>>))

\* warning_checks.validate_triangle_budget, lines 72-78, up to the to_mesh of
\* _get_evaluated_mesh_stats
validate_triangle_budget_call ==
    /\ BeginCall("validate_triangle_budget")
    /\ mode_set_calls' = <<>>
    /\ to_mesh_clear_calls' = 0
    /\ IF The(obj).type # "MESH"
       THEN /\ ret' = Ret(<<Msg("Error validating triangle budget. Asset is not a mesh.")>>)
            /\ pc' = "idle"
            /\ to_mesh_calls' = 0
            /\ held' = held
       ELSE to_mesh("budget_try")
    /\ UNCHANGED <<mode, mesh_select, prev_mode, pending>>
    /\ UNCHANGED ruleFrame

\* warning_checks._get_evaluated_mesh_stats, lines 21-33
_get_evaluated_mesh_stats_try ==
    /\ pc = "budget_try"
    /\ \E ok \in BOOLEAN :
         pending' = IF ok THEN Ret(<<mesh_stats(The(obj).eval)>>)
                    ELSE Raise("Exception")
    /\ pc' = "budget_finally"
    /\ UNCHANGED tryFrame
    /\ UNCHANGED ruleFrame

\* validate_triangle_budget, lines 80-86, on the statistics returned
triangle_budget(validation_data, evaluated_stats) ==
    IF ~validation_data.has_obj_type THEN Raise("AttributeError")
    ELSE IF config.max_triangles = Nothing THEN Raise("AssertionError")
    ELSE IF evaluated_stats.triangles > The(config.max_triangles)
    THEN Ret(<<MsgAbout("Mesh has triangles, which exceeds the budget",
                        <<evaluated_stats.triangles, The(config.max_triangles)>>)>>)
    ELSE Ret(<<>>)

\* _get_evaluated_mesh_stats lines 34-35, then the rest of the rule
_get_evaluated_mesh_stats_finally ==
    /\ pc = "budget_finally"
    /\ Finally(IF pending.raised # None THEN pending
               ELSE triangle_budget(obj_data, The(pending.value)))

\* ------------------------------------------------------------- validate_modular
RECURSIVE MinCoord(_, _)
MinCoord(vertices, k) ==
    IF Len(vertices) = 1 THEN vertices[1][k]
    ELSE LET m == MinCoord(Tail(vertices), k)
         IN  IF vertices[1][k] < m THEN vertices[1][k] ELSE m

RECURSIVE MaxCoord(_, _)
MaxCoord(vertices, k) ==
    IF Len(vertices) = 1 THEN vertices[1][k]
    ELSE LET m == MaxCoord(Tail(vertices), k)
         IN  IF vertices[1][k] > m THEN vertices[1][k] ELSE m

Abs(x) == IF x < 0 THEN -x ELSE x

\* _is_multiple(x, unit, eps) with eps = 1e-5 and x, unit >= 0 in hundredths:
\* the distance of x / unit to the nearest integer is
\* min(x % unit, unit - x % unit) / unit
_is_multiple(x, unit) ==
    IF unit = 0 THEN FALSE
    ELSE LET r == x % unit
             d == IF r < unit - r THEN r ELSE unit - r
         IN  d * 100000 <= unit

\* lines 119-133: the messages, in order; abs(c) <= eps for c in hundredths
modular_messages(min_v, max_v, unit) ==
    (IF _is_multiple(max_v[1] - min_v[1], unit) THEN <<>>
     ELSE <<MsgAbout("Width is not a multiple of", <<unit>>)>>)
    \o (IF _is_multiple(max_v[2] - min_v[2], unit) THEN <<>>
        ELSE <<MsgAbout("Depth is not a multiple of", <<unit>>)>>)
    \o (IF _is_multiple(max_v[3] - min_v[3], unit) THEN <<>>
        ELSE <<MsgAbout("Height is not a multiple of", <<unit>>)>>)
    \o (IF \A k \in 1..3 : Abs(min_v[k]) * 1000 <= 1 THEN <<>>
        ELSE <<Msg("Pivot not aligned to corner")>>)

\* validate_modular lines 106-113 and _eval_object_bounds_local lines 69-75
validate_modular_call ==
    /\ BeginCall("validate_modular")
    /\ mode_set_calls' = <<>>
    /\ to_mesh_clear_calls' = 0
    /\ IF ~ctx.has_obj_type
       THEN /\ ret' = Raise("AttributeError")
            /\ pc' = "idle" /\ to_mesh_calls' = 0 /\ held' = held
       ELSE IF ctx.obj_type # "MODULAR"
       THEN /\ ret' = Ret(<<>>)
            /\ pc' = "idle" /\ to_mesh_calls' = 0 /\ held' = held
       ELSE IF The(obj).type # "MESH"
       THEN \* bounds is None: the assert of line 115 fails
            /\ ret' = Raise("AssertionError")
            /\ pc' = "idle" /\ to_mesh_calls' = 0 /\ held' = held
       ELSE to_mesh("bounds_try")
    /\ UNCHANGED <<mode, mesh_select, prev_mode, pending>>
    /\ UNCHANGED ruleFrame

\* _eval_object_bounds_local lines 76-92: None for a mesh without vertices
_eval_object_bounds_local_try ==
    /\ pc = "bounds_try"
    /\ \E ok \in BOOLEAN :
         pending' =
            IF ~ok THEN Raise("Exception")
            ELSE IF The(obj).eval.vertices = <<>> THEN Ret(<<>>)
            ELSE Ret(<< [min_v |-> [k \in 1..3 |-> MinCoord(The(obj).eval.vertices, k)],
                         max_v |-> [k \in 1..3 |-> MaxCoord(The(obj).eval.vertices, k)]] >>)
    /\ pc' = "bounds_finally"
    /\ UNCHANGED tryFrame
    /\ UNCHANGED ruleFrame

\* _eval_object_bounds_local lines 93-94, then validate_modular lines 115-135
_eval_object_bounds_local_finally ==
    /\ pc = "bounds_finally"
    /\ Finally(IF pending.raised # None THEN pending
               ELSE IF pending.value = <<>> THEN Raise("AssertionError")
               ELSE Ret(modular_messages(The(pending.value).min_v,
                                         The(pending.value).max_v, config.unit)))

\* ------------------------------------------------------------- rule functions, one call at a time
InitScene ==
    /\ pc = "idle"
    /\ settings = [import_strictness |-> "ERRORS_ONLY", asset_type |-> "PROP_SMALL",
                   export_ext |-> "fbx"]
    /\ obj \in {Just(o) : o \in RuleObjects}
    /\ selected = {"active"}
    /\ outcomes = <<>>
    /\ rule_idx = 1
    /\ error_items = <<>>
    /\ warning_items = <<>>
    /\ mesh_data = Nothing
    /\ files = <<>>
    /\ popen_calls = <<>>
    /\ report = NoReport
    /\ platform = "linux"
    /\ ctx \in RuleContexts
    /\ config \in RuleConfigs
    /\ mode \in Modes
    /\ mesh_select = "user"
    /\ fn = None
    /\ entry_mode = mode
    /\ prev_mode = None
    /\ mode_set_calls = <<>>
    /\ held = 0
    /\ to_mesh_calls = 0
    /\ to_mesh_clear_calls = 0
    /\ pending = Ret(<<>>)
    /\ sock = Nothing
    /\ slot_idx = 1
    /\ materials = <<>>
    /\ ret = Ret(<<>>)
    /\ ExtUnused

NextScene ==
    \/ call_validate_mesh_uv
    \/ call_validate_mesh_materials
    \/ call_validate_file_names
    \/ call_validate_texture_aspect_ratio
    \/ call_validate_texture_size
    \/ call_generate_validation_data
    \/ validate_mesh_manifold_enter
    \/ validate_mesh_manifold_try
    \/ validate_mesh_manifold_finally
    \/ get_evaluated_mesh_stats_call
    \/ get_evaluated_mesh_stats_try
    \/ get_evaluated_mesh_stats_finally
    \/ call_original_stats
    \/ validate_triangle_budget_call
    \/ _get_evaluated_mesh_stats_try
    \/ _get_evaluated_mesh_stats_finally
    \/ validate_modular_call
    \/ _eval_object_bounds_local_try
    \/ _eval_object_bounds_local_finally

SpecScene == InitScene /\ [][NextScene]_vars

\* the steps between an acquiring function's to_mesh and its finally clause
HoldingSteps == {"stats_try", "stats_finally", "budget_try", "budget_finally",
                 "bounds_try", "bounds_finally"}

\* C5: every temporary evaluated mesh acquired by get_evaluated_mesh_stats,
\* _get_evaluated_mesh_stats or _eval_object_bounds_local is released exactly
\* once before the function exits, by return, early return or exception: a
\* finished call holds no mesh and made as many to_mesh_clear calls as
\* to_mesh calls that handed out a mesh, and at most one mesh is ever held.
C5_EvaluatedMeshReleased ==
    /\ held \in {0, 1}
    /\ to_mesh_calls \in {0, 1}
    /\ pc \in HoldingSteps => held = 1 /\ to_mesh_calls = 1 /\ to_mesh_clear_calls = 0
    /\ pc = "idle" => held = 0 /\ to_mesh_clear_calls = to_mesh_calls

\* a call of validate_modular whose bounding box function acquired the mesh,
\* found it empty and returned early, has finished
C5_Witness ==
    /\ pc = "idle"
    /\ fn = "validate_modular"
    /\ The(obj).eval = NoGeometry
    /\ ret.raised = "AssertionError"
    /\ to_mesh_calls = 1
    /\ to_mesh_clear_calls = 1
    /\ held = 0

\* get_evaluated_mesh_stats was left by an exception of its try block, after
\* releasing the mesh
C5_ExceptionExit ==
    /\ pc = "idle"
    /\ fn = "get_evaluated_mesh_stats"
    /\ ret.raised = "Exception"
    /\ to_mesh_calls = 1
    /\ to_mesh_clear_calls = 1

\* C6: after validate_mesh_manifold finishes on a mesh object, obj.mode is the
\* mode the object had when the rule started, whether the rule returned no
\* message, a message, or raised; when that mode was EDIT, mode_set was not
\* called at all.
C6_ModeRestored ==
    (pc = "idle" /\ fn = "validate_mesh_manifold" /\ The(obj).type = "MESH") =>
        /\ mode = entry_mode
        /\ entry_mode = "EDIT" => mode_set_calls = <<>>

\* the number of polygon corners: the sum of the polygons' vertex counts
RECURSIVE Corners(_, _)
Corners(polygons, n) ==
    IF n = 0 THEN 0 ELSE polygons[n] + Corners(polygons, n - 1)

\* C14: for a mesh whose polygons have at least 3 vertices each, the
\* triangles entry of the original and of the evaluated statistics is the sum
\* over the polygons of (vertex count - 2), and vertices, edges, faces and
\* triangles are non-negative integers.
C14_TriangleCount ==
    (pc = "idle" /\ fn \in {"get_evaluated_mesh_stats", "original_stats"}
     /\ ret.raised = None) =>
        LET mesh == IF fn = "original_stats" THEN The(obj).data ELSE The(obj).eval
            stats == The(ret.value)
        IN  (\A i \in 1..Len(mesh.polygons) : mesh.polygons[i] >= 3) =>
               /\ stats.triangles =
                     Corners(mesh.polygons, Len(mesh.polygons)) - 2 * Len(mesh.polygons)
               /\ stats.faces = Len(mesh.polygons)
               /\ \A k \in {"vertices", "edges", "faces", "triangles"} : stats[k] \in Nat

\* the evaluated statistics of the pyramid: a quad and four triangles
C14_Witness ==
    /\ pc = "idle"
    /\ fn = "get_evaluated_mesh_stats"
    /\ ret.raised = None
    /\ The(obj).eval = Pyramid
    /\ The(ret.value).faces = 5
    /\ The(ret.value).triangles = 6

\* the rule functions of error_checks.py and warning_checks.py
RuleFunctions == {"validate_mesh_uv", "validate_mesh_manifold",
                  "validate_mesh_materials", "validate_file_names",
                  "validate_triangle_budget", "validate_texture_aspect_ratio",
                  "validate_texture_size", "validate_modular"}

\* C7: on an object that is not a mesh no rule raises, and
\* generate_validation_data, which runs the rule list, returns a result.
C7_NonMeshNeverRaises ==
    (/\ pc = "idle"
     /\ The(obj).type # "MESH"
     /\ \/ fn = "generate_validation_data"
        \/ fn \in RuleFunctions /\ ctx.has_obj_type /\ ctx.images = <<>>)
    => ret.raised = None

\* ------------------------------------------------------------- shader graphs
\* an image datablock; names are character sequences, as object names are
Image(name) == [name |-> name, filepath |-> [relative |-> TRUE, file |-> name],
                colorspace |-> "sRGB"]

\* bpy.path.abspath: a path relative to the blend file made absolute
abspath(filepath) == [filepath EXCEPT !.relative = FALSE]

\* nodes: bl is the node's class, image is ShaderNodeTexImage.image (an image
\* or None), color is what inputs.get("Color") gives on a ShaderNodeNormalMap
\* (None, or a socket that may be linked to a further node)
NoNode == [bl |-> None, image |-> Nothing, color |-> Nothing]
TexImage(image) == [bl |-> "ShaderNodeTexImage", image |-> image, color |-> Nothing]
NormalMap(color) == [bl |-> "ShaderNodeNormalMap", image |-> Nothing, color |-> color]
MathNode == [bl |-> "ShaderNodeMath", image |-> Nothing, color |-> Nothing]
ColorInput(from_node) == [is_linked |-> from_node # NoNode, from_node |-> from_node]

\* sockets: kind is the socket's class, default_value its literal value as a
\* sequence of numbers in hundredths (a float is a sequence of one number),
\* from_node is links[0].from_node
Unlinked(kind, default_value) ==
    [kind |-> kind, default_value |-> default_value, is_linked |-> FALSE,
     from_node |-> NoNode]
Linked(kind, default_value, from_node) ==
    [kind |-> kind, default_value |-> default_value, is_linked |-> TRUE,
     from_node |-> from_node]

\* lines 82-88 and 108-115: the dictionary of a texture
\* (original_name is image.name_full, which is image.name for an image of the
\* blend file itself, as the images here are)
texture_ref(image) ==
    [type |-> "texture", path |-> abspath(image.filepath),
     original_name |-> image.name,
     normalized_name |-> normalize_texture_name(image.name),
     color_space |-> image.colorspace]

texture_ref_normal(image) ==
    [type |-> "texture", usage |-> "normal", path |-> abspath(image.filepath),
     original_name |-> image.name,
     normalized_name |-> normalize_texture_name(image.name),
     color_space |-> image.colorspace]

\* list(sock.default_value)[:3]
FirstThree(value) == SubSeq(value, 1, IF Len(value) < 3 THEN Len(value) ELSE 3)

\* mesh_metadata._classify_shader_input
_classify_shader_input(s) ==
    IF ~s.is_linked
    THEN IF s.kind \in {"NodeSocketColor", "NodeSocketVector"}
         THEN Ret(<<[type |-> "constant", value |-> FirstThree(s.default_value)]>>)
         ELSE IF s.kind \in {"NodeSocketFloat", "NodeSocketFloatFactor"}
         THEN Ret(<<[type |-> "constant", value |-> s.default_value]>>)
         ELSE \* line 66 reads val, which no branch bound
              Raise("UnboundLocalError")
    ELSE IF s.from_node.bl = "ShaderNodeTexImage"
    THEN IF s.from_node.image = Nothing
         THEN Raise("AssertionError")
         ELSE Ret(<<texture_ref(The(s.from_node.image))>>)
    ELSE IF /\ s.from_node.bl = "ShaderNodeNormalMap"
            /\ s.from_node.color # Nothing
            /\ The(s.from_node.color).is_linked
            /\ The(s.from_node.color).from_node.bl = "ShaderNodeTexImage"
    THEN IF The(s.from_node.color).from_node.image = Nothing
         THEN Raise("AssertionError")
         ELSE Ret(<<texture_ref_normal(The(The(s.from_node.color).from_node.image))>>)
    ELSE Ret(<<[type |-> "complex"]>>)

\* the sockets _classify_shader_input is called on
Sockets ==
    { Unlinked("NodeSocketColor", <<80, 80, 80, 100>>),
      Unlinked("NodeSocketVector", <<0, 0, 100>>),
      Unlinked("NodeSocketFloat", <<50>>),
      Unlinked("NodeSocketFloatFactor", <<100>>),
      Unlinked("NodeSocketShader", <<>>),
      Linked("NodeSocketColor", <<80, 80, 80, 100>>, TexImage(Just(Image(<<"a">>)))),
      Linked("NodeSocketColor", <<80, 80, 80, 100>>, TexImage(Nothing)),
      Linked("NodeSocketFloatFactor", <<50>>, MathNode),
      Linked("NodeSocketVector", <<0, 0, 0>>, NormalMap(Nothing)),
      Linked("NodeSocketVector", <<0, 0, 0>>, NormalMap(Just(ColorInput(NoNode)))),
      Linked("NodeSocketVector", <<0, 0, 0>>, NormalMap(Just(ColorInput(MathNode)))),
      Linked("NodeSocketVector", <<0, 0, 0>>,
             NormalMap(Just(ColorInput(TexImage(Just(Image(<<"T", "_", "a">>))))))),
      Linked("NodeSocketVector", <<0, 0, 0>>,
             NormalMap(Just(ColorInput(TexImage(Nothing))))),
      \* a normal map fed by a normal map (itself, in a cycle, or another)
      Linked("NodeSocketVector", <<0, 0, 0>>,
             NormalMap(Just(ColorInput(NormalMap(Nothing))))) }

\* ------------------------------------------------------------- materials
\* the six inputs get_material_data reads, and the keys it stores them under
SocketNames == <<"Base Color", "Roughness", "Metallic", "Normal",
                 "Emission Color", "Alpha">>

\* the inputs of a Principled BSDF node, all unlinked
PlainInputs ==
    ("Base Color" :> Unlinked("NodeSocketColor", <<80, 80, 80, 100>>))
    @@ ("Roughness" :> Unlinked("NodeSocketFloatFactor", <<50>>))
    @@ ("Metallic" :> Unlinked("NodeSocketFloatFactor", <<0>>))
    @@ ("Normal" :> Unlinked("NodeSocketVector", <<0, 0, 0>>))
    @@ ("Emission Color" :> Unlinked("NodeSocketColor", <<100, 100, 100, 100>>))
    @@ ("Alpha" :> Unlinked("NodeSocketFloatFactor", <<100>>))

\* base colour from an image, normal through a normal map, roughness from a
\* math node
TexturedInputs ==
    [PlainInputs EXCEPT
       !["Base Color"] = Linked("NodeSocketColor", <<80, 80, 80, 100>>,
                                TexImage(Just(Image(<<"a">>)))),
       !["Roughness"] = Linked("NodeSocketFloatFactor", <<50>>, MathNode),
       !["Normal"] = Linked("NodeSocketVector", <<0, 0, 0>>,
                            NormalMap(Just(ColorInput(
                                TexImage(Just(Image(<<"T", "_", "a">>)))))))]

\* base colour from an image texture node to which no image is assigned
UnassignedInputs ==
    [PlainInputs EXCEPT
       !["Base Color"] = Linked("NodeSocketColor", <<80, 80, 80, 100>>,
                                TexImage(Nothing))]

\* a shader node without an input called "Emission Color"
LegacyInputs ==
    [n \in DOMAIN PlainInputs \ {"Emission Color"} |-> PlainInputs[n]]

\* a material: node_tree is None or a tree, whose first node of type
\* BSDF_PRINCIPLED, if there is one, has the given inputs
Material(name, node_tree) == [name |-> name, node_tree |-> node_tree]
Tree(inputs) == Just([principled |-> Just(inputs)])

Materials ==
    { Material(<<"M", "I", "_", "a">>, Tree(PlainInputs)),
      Material(<<"a">>, Tree(TexturedInputs)),
      Material(<<"a", "a">>, Tree(UnassignedInputs)),
      Material(<<"a", "_">>, Tree(LegacyInputs)),
      Material(<<"_", "a">>, Just([principled |-> Nothing])),
      Material(<<"_">>, Nothing) }

\* a material slot holds a material or nothing
Slots == {Just(m) : m \in Materials} \cup {Nothing}

\* slots per object
MaxSlots == 2

MaterialObjects ==
    UNION { [type : {"MESH"}, name : { <<"a">> },
             material_slots : [1..n -> Slots]] : n \in 0..MaxSlots }

\* next() with a default: a material without shader node read as a plain one
_get_shader_connected_to_output_mut(mat) ==
    IF mat.node_tree = Nothing \/ The(mat.node_tree).principled = Nothing
    THEN Ret(<<PlainInputs>>)
    ELSE Ret(<<The(The(mat.node_tree).principled)>>)

\* lines 46-50: the assert on the tree, and next() without a default
_get_shader_connected_to_output(mat) ==
    IF mat.node_tree = Nothing THEN Raise("AssertionError")
    ELSE IF The(mat.node_tree).principled = Nothing THEN Raise("StopIteration")
    ELSE Ret(<<The(The(mat.node_tree).principled)>>)

\* lines 145-152: the parameters dictionary, from the six classifications
parameters_mut(results) ==
    [base_color |-> The(results[1].value), roughness |-> The(results[2].value),
     metallic |-> The(results[3].value), normal |-> The(results[4].value),
     emission_color |-> The(results[5].value)]

parameters(results) ==
    [base_color |-> The(results[1].value), roughness |-> The(results[2].value),
     metallic |-> The(results[3].value), normal |-> The(results[4].value),
     emission_color |-> The(results[5].value), alpha |-> The(results[6].value)]

\* lines 124-156, the body of the loop over obj.material_slots: the entry of
\* one slot, or the first exception on the way to it
material_entry(slot) ==
    IF slot = Nothing THEN Raise("AssertionError")
    ELSE LET next_material == The(slot)
             shader == _get_shader_connected_to_output(next_material)
         IN  IF shader.raised # None THEN shader
             ELSE LET inputs == The(shader.value)
                      results == [i \in 1..Len(SocketNames) |->
                                    IF SocketNames[i] \in DOMAIN inputs
                                    THEN _classify_shader_input(inputs[SocketNames[i]])
                                    ELSE Raise("AssertionError")]
                      failed == {i \in 1..Len(SocketNames) : results[i].raised # None}
                  IN  IF \E i \in 1..Len(SocketNames) : SocketNames[i] \notin DOMAIN inputs
                      THEN Raise("AssertionError")
                      ELSE IF failed # {}
                      THEN results[CHOOSE i \in failed : \A j \in failed : i <= j]
                      ELSE Ret(<<[name |-> next_material.name,
                                  normalized_name |->
                                     normalize_material_instance_name(next_material.name),
                                  parameters |-> parameters(results)]>>)

\* what the material functions leave alone
matFrame == <<runVars, loopVars, ctx, config, mode, mesh_select, entry_mode,
              prev_mode, mode_set_calls, held, to_mesh_calls,
              to_mesh_clear_calls, pending, extVars>>

\* _classify_shader_input called on one socket
call_classify_shader_input ==
    /\ pc = "idle"
    /\ \E s \in Sockets :
         /\ sock' = Just(s)
         /\ ret' = _classify_shader_input(s)
    /\ fn' = "_classify_shader_input"
    /\ pc' = "idle"
    /\ UNCHANGED <<slot_idx, materials>>
    /\ UNCHANGED matFrame

\* get_material_data, line 121
get_material_data_call ==
    /\ pc = "idle"
    /\ fn' = "get_material_data"
    /\ materials' = <<>>
    /\ slot_idx' = 1
    /\ pc' = "material_slots"
    /\ UNCHANGED <<sock, ret>>
    /\ UNCHANGED matFrame

\* lines 123-156: one turn of the loop
get_material_data_slot ==
    /\ pc = "material_slots"
    /\ slot_idx <= Len(The(obj).material_slots)
    /\ LET entry == material_entry(The(obj).material_slots[slot_idx])
       IN  IF entry.raised # None
           THEN /\ ret' = entry
                /\ pc' = "idle"
                /\ UNCHANGED <<slot_idx, materials>>
           ELSE /\ materials' = Append(materials, The(entry.value))
                /\ slot_idx' = slot_idx + 1
                /\ UNCHANGED <<pc, ret>>
    /\ UNCHANGED <<fn, sock>>
    /\ UNCHANGED matFrame

\* line 159
get_material_data_return ==
    /\ pc = "material_slots"
    /\ slot_idx > Len(The(obj).material_slots)
    /\ ret' = Ret(materials)
    /\ pc' = "idle"
    /\ UNCHANGED <<fn, sock, slot_idx, materials>>
    /\ UNCHANGED matFrame

InitMaterials ==
    /\ pc = "idle"
    /\ settings = [import_strictness |-> "ERRORS_ONLY", asset_type |-> "PROP_SMALL",
                   export_ext |-> "fbx"]
    /\ obj \in {Just(o) : o \in MaterialObjects}
    /\ selected = {"active"}
    /\ outcomes = <<>>
    /\ rule_idx = 1
    /\ error_items = <<>>
    /\ warning_items = <<>>
    /\ mesh_data = Nothing
    /\ files = <<>>
    /\ popen_calls = <<>>
    /\ report = NoReport
    /\ platform = "linux"
    /\ SceneUnused

NextMaterials ==
    \/ call_classify_shader_input
    \/ get_material_data_call
    \/ get_material_data_slot
    \/ get_material_data_return

SpecMaterials == InitMaterials /\ [][NextMaterials]_vars

\* the materials of the slots of the active object, empty slots left out
SlotMaterialNames ==
    {The(The(obj).material_slots[i]).name :
        i \in {j \in 1..Len(The(obj).material_slots) :
                  The(obj).material_slots[j] # Nothing}}

\* C8: the list get_material_data returns has exactly one entry per distinct
\* material of the object's slots, however many slots refer to it.
C8_OneEntryPerMaterial ==
    (pc = "idle" /\ fn = "get_material_data" /\ ret.raised = None) =>
        /\ \A i, j \in 1..Len(ret.value) :
              i # j => ret.value[i].name # ret.value[j].name
        /\ {ret.value[i].name : i \in 1..Len(ret.value)} = SlotMaterialNames

ParameterKeys == {"base_color", "roughness", "metallic", "normal",
                  "emission_color", "alpha"}
ParameterTypes == {"constant", "texture", "complex"}

\* C9: every entry of the list get_material_data builds has a parameters map
\* whose keys are exactly base_color, roughness, metallic, normal,
\* emission_color and alpha, each value of one type out of constant, texture
\* and complex; the same holds of the list it returns.
C9_SixParameters ==
    /\ \A i \in 1..Len(materials) :
          /\ DOMAIN materials[i].parameters = ParameterKeys
          /\ \A k \in ParameterKeys : materials[i].parameters[k].type \in ParameterTypes
    /\ (pc = "idle" /\ fn = "get_material_data" /\ ret.raised = None) =>
          ret.value = materials

\* get_material_data returned two entries, one of them with a texture, a
\* complex and a constant parameter
C9_Witness ==
    /\ pc = "idle"
    /\ fn = "get_material_data"
    /\ ret.raised = None
    /\ Len(ret.value) = 2
    /\ ret.value[2].parameters.base_color.type = "texture"
    /\ ret.value[2].parameters.roughness.type = "complex"
    /\ ret.value[2].parameters.alpha.type = "constant"
    /\ ret.value[1].parameters.base_color.type = "constant"

\* C10: _classify_shader_input never fails on an unconnected colour, vector
\* or scalar socket, on a socket linked to an image texture node, or on one
\* linked to any other node outside a normal map chain; it yields constant
\* with the literal value (three components, or one number), texture with
\* path and colour space and without usage, and complex, respectively.
C10_ClassificationTotal ==
    (pc = "idle" /\ fn = "_classify_shader_input") =>
        LET s == The(sock)
            r == The(ret.value)
        IN  /\ (~s.is_linked /\ s.kind \in {"NodeSocketColor", "NodeSocketVector"}) =>
                  /\ ret.raised = None
                  /\ r.type = "constant"
                  /\ Len(r.value) = 3
                  /\ r.value = SubSeq(s.default_value, 1, 3)
            /\ (~s.is_linked /\ s.kind \in {"NodeSocketFloat", "NodeSocketFloatFactor"}) =>
                  /\ ret.raised = None
                  /\ r.type = "constant"
                  /\ r.value = s.default_value
                  /\ Len(r.value) = 1
            /\ (s.is_linked /\ s.from_node.bl = "ShaderNodeTexImage") =>
                  /\ ret.raised = None
                  /\ r.type = "texture"
                  /\ {"path", "color_space"} \subseteq DOMAIN r
                  /\ "usage" \notin DOMAIN r
            /\ (s.is_linked /\ s.from_node.bl = "ShaderNodeMath") =>
                  /\ ret.raised = None
                  /\ r.type = "complex"

\* the socket is linked to a normal map node whose Color input is linked to
\* an image texture node
NormalChain(s) ==
    /\ s.is_linked
    /\ s.from_node.bl = "ShaderNodeNormalMap"
    /\ s.from_node.color # Nothing
    /\ The(s.from_node.color).is_linked
    /\ The(s.from_node.color).from_node.bl = "ShaderNodeTexImage"

\* C11: a socket linked to a normal map node whose Color input is linked to
\* an image texture node is classified as texture with usage "normal"; a
\* normal map node whose Color input is absent, unlinked or linked to any
\* other node (a further normal map included) is classified as complex, and
\* the call returns.
C11_NormalMapOneHop ==
    (pc = "idle" /\ fn = "_classify_shader_input"
     /\ The(sock).is_linked /\ The(sock).from_node.bl = "ShaderNodeNormalMap") =>
        /\ ret.raised = None
        /\ IF NormalChain(The(sock))
           THEN /\ The(ret.value).type = "texture"
                /\ "usage" \in DOMAIN The(ret.value)
                /\ The(ret.value).usage = "normal"
           ELSE The(ret.value).type = "complex"

\* the material has no node of type BSDF_PRINCIPLED (or no node tree at all)
NoPrincipled(mat) ==
    \/ mat.node_tree = Nothing
    \/ The(mat.node_tree).principled = Nothing

\* C12: when a material of the object's slots has no principled shader node,
\* get_material_data raises: it returns no materials list, so no manifest is
\* built from a list that leaves the material out.
C12_NoPrincipledAborts ==
    (/\ pc = "idle"
     /\ fn = "get_material_data"
     /\ \E i \in 1..Len(The(obj).material_slots) :
           /\ The(obj).material_slots[i] # Nothing
           /\ NoPrincipled(The(The(obj).material_slots[i])))
    => ret.raised # None

\* the first slot was classified, the second has a tree without principled
\* node, and the call ended with the StopIteration of next()
C12_Witness ==
    /\ pc = "idle"
    /\ fn = "get_material_data"
    /\ Len(The(obj).material_slots) = 2
    /\ The(obj).material_slots[2] # Nothing
    /\ The(The(obj).material_slots[2]).node_tree # Nothing
    /\ NoPrincipled(The(The(obj).material_slots[2]))
    /\ Len(materials) = 1
    /\ ret.raised = "StopIteration"

\* ------------------------------------------------------------- manifest
\* generate_metadata's body, for the keys the export run reads back: the
\* file name is built from the normalized name and always ends in .fbx
generate_metadata(o, asset_type) ==
    LET normalized_obj_name == normalize_mesh_name(o.name)
    IN  [source |-> [object_name |-> o.name,
                     normalized_name |-> normalized_obj_name,
                     asset_type |-> asset_type],
         export |-> [format |-> "fbx",
                     export_path |-> File(normalized_obj_name, "fbx")],
         validation |-> Nothing]

\* ------------------------------------------------------------- validation engine
\* the rule list with the code of the first rule pasted into the second
rules_mut == <<
    [code |-> "MISSING_UV",           severity |-> "error",   check |-> "validate_mesh_uv"],
    [code |-> "MISSING_UV",           severity |-> "error",   check |-> "validate_mesh_manifold"],
    [code |-> "MISSING_MATERIALS",    severity |-> "warning", check |-> "validate_mesh_materials"],
    [code |-> "BAD_NAME",             severity |-> "warning", check |-> "validate_file_names"],
    [code |-> "OVER_TRIANGLE_BUDGET", severity |-> "warning", check |-> "validate_triangle_budget"],
    [code |-> "TEXTURE_NOT_SQUARE",   severity |-> "warning", check |-> "validate_texture_aspect_ratio"],
    [code |-> "OVER_TEXTURE_BUDGET",  severity |-> "warning", check |-> "validate_texture_size"] >>

\* the rule list of generate_validation_data, in registration order
rules == <<
    [code |-> "MISSING_UV",           severity |-> "error",   check |-> "validate_mesh_uv"],
    [code |-> "NON_MANIFOLD",         severity |-> "error",   check |-> "validate_mesh_manifold"],
    [code |-> "MISSING_MATERIALS",    severity |-> "warning", check |-> "validate_mesh_materials"],
    [code |-> "BAD_NAME",             severity |-> "warning", check |-> "validate_file_names"],
    [code |-> "OVER_TRIANGLE_BUDGET", severity |-> "warning", check |-> "validate_triangle_budget"],
    [code |-> "TEXTURE_NOT_SQUARE",   severity |-> "warning", check |-> "validate_texture_aspect_ratio"],
    [code |-> "OVER_TEXTURE_BUDGET",  severity |-> "warning", check |-> "validate_texture_size"] >>

\* the checks that append one message per offending name or image; the others
\* return at most one message
MultiMessageChecks == {"validate_file_names", "validate_texture_aspect_ratio",
                       "validate_texture_size"}

\* a message list of n messages
Messages(n) == [i \in 1..n |-> i]

\* what one call r.check(obj_data) can do: return a message list, or raise
Outcomes(check) ==
    LET longest == IF check \in MultiMessageChecks THEN MaxMsgs ELSE 1
    IN  { [raised |-> FALSE, message |-> Messages(n)] : n \in 0..longest }
        \cup { [raised |-> TRUE, message |-> <<>>] }

\* the value generate_validation_data returns
ValidationResult_mut(errors, warnings) ==
    [passed |-> Len(errors) = 0 /\ Len(warnings) = 0,
     errors |-> errors,
     warnings |-> warnings]

ValidationResult(errors, warnings) ==
    [passed |-> Len(errors) = 0,
     errors |-> errors,
     warnings |-> warnings]

\* the item put in front of the list
append_mut(items, item) == <<item>> \o items

\* lines 80 and 82: list.append
append(items, item) == Append(items, item)

\* what one call r.check(obj_data) does to the scene, with what it answers:
\* the mode the object is left in, the selection of the edit mesh, and the
\* host calls the rule made. validate_mesh_manifold (error_checks.py:31-60)
\* switches to edit mode unless the object is in it, which the host may
\* refuse; deselects everything and selects the non-manifold elements, which
\* are what is selected when it returns its message; and switches back in its
\* finally clause. validate_triangle_budget (warning_checks.py:72-86) obtains
\* one evaluated mesh with to_mesh and clears it in the finally clause of
\* _get_evaluated_mesh_stats. The other five rules read the context only.
RuleRuns(check) ==
    LET quiet(o) == [raised |-> o.raised, message |-> o.message,
                     mode |-> mode, mesh_select |-> mesh_select,
                     prev_mode |-> prev_mode, mode_set_calls |-> <<>>,
                     to_mesh_calls |-> 0, to_mesh_clear_calls |-> 0]
        answers == {o \in Outcomes(check) : ~o.raised}
        raises == [raised |-> TRUE, message |-> <<>>]
        switch == mode # "EDIT"
        there_and_back == IF switch THEN <<"EDIT", mode>> ELSE <<>>
        \* how the try block of validate_mesh_manifold ends, and the
        \* selection it leaves
        tries ==
            \* line 40: bmesh.from_edit_mesh raises
            { [o |-> raises, mesh_select |-> mesh_select] }
            \* line 51: select_non_manifold raises
            \cup { [o |-> raises, mesh_select |-> deselect_all(mesh_select)] }
            \* lines 55-56: the message tells whether anything was selected
            \cup { [o |-> o,
                    mesh_select |-> select_non_manifold(deselect_all(mesh_select),
                                        [non_manifold |-> o.message # <<>>])] :
                   o \in answers }
        cleared == 1 - to_mesh_clear(1, raises)
    IN  IF check = "validate_mesh_manifold"
        THEN \* line 33: the first mode_set is refused
             (IF switch
              THEN { [quiet(raises) EXCEPT !.prev_mode = mode,
                                           !.mode_set_calls = <<"EDIT">>] }
              ELSE {})
             \* lines 58-60: the restoring mode_set is carried out, or refused,
             \* which raises whatever the try block did
             \cup { [quiet(IF done THEN t.o ELSE raises) EXCEPT
                        !.prev_mode = mode,
                        !.mode = RestoredMode(mode, IF switch THEN "EDIT" ELSE mode, done),
                        !.mesh_select = t.mesh_select,
                        !.mode_set_calls = there_and_back] :
                    t \in tries, done \in (IF switch THEN BOOLEAN ELSE {TRUE}) }
        ELSE IF check = "validate_triangle_budget"
        THEN \* to_mesh raises
             { quiet(raises) }
             \* the try block, or the rest of the rule, raises
             \cup { [quiet(raises) EXCEPT !.to_mesh_calls = 1,
                                          !.to_mesh_clear_calls = cleared] }
             \cup { [quiet(o) EXCEPT !.to_mesh_calls = 1,
                                     !.to_mesh_clear_calls = cleared] : o \in answers }
        ELSE { quiet(o) : o \in Outcomes(check) }

\* one iteration of "for r in rules": the rule is called, does what it does
\* to the scene, and answers
RunRule ==
    /\ pc = "rules"
    /\ rule_idx <= Len(rules)
    /\ \E run \in RuleRuns(rules[rule_idx].check) :
         LET r == rules[rule_idx]
             outcome == [raised |-> run.raised, message |-> run.message]
             message == outcome.message
             item == [code |-> r.code, message |-> message]
         IN  /\ outcomes' = Append(outcomes, outcome)
             /\ fn' = r.check
             /\ entry_mode' = mode
             /\ mode' = run.mode
             /\ mesh_select' = run.mesh_select
             /\ prev_mode' = run.prev_mode
             /\ mode_set_calls' = run.mode_set_calls
             /\ to_mesh_calls' = run.to_mesh_calls
             /\ to_mesh_clear_calls' = run.to_mesh_clear_calls
             /\ held' = held + run.to_mesh_calls - run.to_mesh_clear_calls
             /\ IF outcome.raised
                THEN \* no handler in generate_validation_data, and line 254
                     \* of execute lies outside the try block
                     /\ pc' = "done"
                     /\ report' = Escaped("Exception")
                     /\ ret' = Raise("Exception")
                     /\ UNCHANGED <<rule_idx, error_items, warning_items>>
                ELSE /\ pc' = pc
                     /\ report' = report
                     /\ ret' = Ret(message)
                     /\ rule_idx' = rule_idx + 1
                     /\ IF message = <<>>
                        THEN UNCHANGED <<error_items, warning_items>>
                        ELSE IF r.severity = "error"
                             THEN /\ error_items' = append(error_items, item)
                                  /\ UNCHANGED warning_items
                             ELSE /\ warning_items' = append(warning_items, item)
                                  /\ UNCHANGED error_items
    /\ UNCHANGED <<settings, obj, selected, mesh_data, files, popen_calls,
                   platform>>
    /\ UNCHANGED <<ctx, config, pending, sock, slot_idx, materials, extVars>>

\* the loop is over: the result becomes mesh_data["validation"]
ReturnValidation ==
    /\ pc = "rules"
    /\ rule_idx > Len(rules)
    /\ mesh_data' = Just([The(mesh_data) EXCEPT
                            !.validation = Just(ValidationResult(error_items, warning_items))])
    /\ pc' = "export_mesh_metadata"
    /\ UNCHANGED <<loopVars, settings, obj, selected, files, popen_calls,
                   report, platform, sceneVars>>

\* ------------------------------------------------------------- the try block of execute
\* export_mesh_metadata(data_export_path, mesh_data): the manifest is
\* written under the raw object name. open(export_path, "w") creates or
\* empties the file before json.dump writes into it, so a write that fails
\* leaves a file that holds no manifest where there was none or an earlier one.
export_mesh_metadata ==
    /\ pc = "export_mesh_metadata"
    /\ LET export_path == File(The(obj).name, "json")
       IN  \E io \in {"written", "open_raises", "dump_raises"} :
             IF io = "written"
             THEN /\ files' = WriteFile(files, export_path,
                                        ManifestFile(The(mesh_data)))
                  /\ pc' = "export_active_mesh_fbx"
                  /\ report' = report
             ELSE IF io = "open_raises"
             THEN \* os.makedirs or open raised: caught by the except clause
                  /\ files' = files
                  /\ pc' = "done"
                  /\ report' = Cancelled("OSError")
             ELSE \* json.dump raised after open: caught by the except clause
                  /\ files' = WriteFile(files, export_path, CutFile)
                  /\ pc' = "done"
                  /\ report' = Cancelled("OSError")
    /\ UNCHANGED <<loopVars, settings, obj, selected, mesh_data, popen_calls,
                   platform, sceneVars>>

\* export_active_mesh_fbx(object_export_path, mesh_data, export_ext): the
\* exporter writes "<raw name>.fbx" whatever the format; when the normalized
\* name differs, both files are renamed
export_active_mesh_fbx ==
    /\ pc = "export_active_mesh_fbx"
    /\ LET mesh == The(mesh_data).source
           export_ext == settings.export_ext
           object_export_path == File(The(obj).name, "fbx")
           written == WriteFile(files, object_export_path, GeometryFile(export_ext))
           geo_src == File(mesh.object_name, "fbx")
           geo_dst == File(mesh.normalized_name, export_ext)
           json_src == File(mesh.object_name, "json")
           json_dst == File(mesh.normalized_name, "json")
           renamed1 == RenameFile(written, geo_src, geo_dst)
           renamed2 == RenameFile(renamed1, json_src, json_dst)
       IN  \E io_ok \in BOOLEAN :
             IF ~io_ok
             THEN \* os.makedirs or the exporter raised
                  /\ files' = files
                  /\ pc' = "done"
                  /\ report' = Cancelled("OSError")
             ELSE IF mesh.object_name = mesh.normalized_name
             THEN /\ files' = written
                  /\ pc' = "gate"
                  /\ report' = report
             ELSE IF RenameRaises(written, geo_src, geo_dst, platform)
             THEN /\ files' = written
                  /\ pc' = "done"
                  /\ report' = Cancelled("OSError")
             ELSE IF RenameRaises(renamed1, json_src, json_dst, platform)
             THEN /\ files' = renamed1
                  /\ pc' = "done"
                  /\ report' = Cancelled("OSError")
             ELSE /\ files' = renamed2
                  /\ pc' = "gate"
                  /\ report' = report
    /\ UNCHANGED <<loopVars, settings, obj, selected, mesh_data, popen_calls,
                   platform, sceneVars>>

\* the if/elif chain on settings.import_strictness: "pass" falls through to
\* the final report, "raise" raises RuntimeError, "import" calls run_ue_import
ImportDecision_mut(import_strictness, validation) ==
    IF import_strictness = "DO_NOT_IMPORT" THEN "pass"
    ELSE IF import_strictness = "ERRORS_AND_WARNINGS"
            /\ (validation.warnings # <<>> \/ ~validation.passed) THEN "raise"
    ELSE "import"

ImportDecision(import_strictness, validation) ==
    IF import_strictness = "DO_NOT_IMPORT" THEN "pass"
    ELSE IF import_strictness = "ERRORS_AND_WARNINGS"
            /\ (validation.warnings # <<>> \/ ~validation.passed) THEN "raise"
    ELSE IF ~validation.passed THEN "raise"
    ELSE "import"

\* the path of the geometry file in place of the manifest's
run_ue_import_manifest_mut(obj_name) == File(obj_name, "fbx")

\* run_ue_import(obj_name, context): Popen is handed
\* "-manifest=<export_dir>/<obj_name>.json"
run_ue_import_manifest(obj_name) == File(obj_name, "json")

ImportGate ==
    /\ pc = "gate"
    /\ LET validation == The(The(mesh_data).validation)
           decision == ImportDecision(settings.import_strictness, validation)
       IN  \/ /\ decision = "pass"
              /\ report' = Finished
              /\ UNCHANGED popen_calls
           \/ /\ decision = "raise"
              /\ report' = Cancelled("Asset failed validation checks")
              /\ UNCHANGED popen_calls
           \/ /\ decision = "import"
              /\ popen_calls' = Append(popen_calls,
                     run_ue_import_manifest(The(mesh_data).source.normalized_name))
              /\ \E popen_ok \in BOOLEAN :
                   report' = IF popen_ok THEN Finished ELSE Cancelled("OSError")
    /\ pc' = "done"
    /\ UNCHANGED <<loopVars, settings, obj, selected, mesh_data, files, platform,
                   sceneVars>>

\* the objects of the scene: the active one and another one
ObjIds == {"active", "other"}

\* a mesh object, as far as the export run reads it after line 254
MeshObjects == [type : {"MESH"}, name : ObjectNames]

\* line 70 of generate_validation_data, reached from line 254 of execute for
\* a selected mesh whose metadata exists
\* what an earlier, successful export of the same object in the same format
\* left in the export directory
PreviousExport(o, st) ==
    LET earlier == [generate_metadata(o, st.asset_type) EXCEPT
                      !.validation = Just(ValidationResult(<<>>, <<>>))]
        stem == earlier.source.normalized_name
        ext == IF o.name = stem THEN "fbx" ELSE st.export_ext
    IN  WriteFile(WriteFile(<<>>, File(stem, ext), GeometryFile(st.export_ext)),
                  File(stem, "json"), ManifestFile(earlier))

InitValidation ==
    /\ pc = "rules"
    /\ settings \in {s \in Settings : s.asset_type \in {"PROP_SMALL", "MODULAR"}}
    /\ obj \in {Just(o) : o \in MeshObjects}
    /\ selected = {"active"}
    /\ outcomes = <<>>
    /\ rule_idx = 1
    /\ error_items = <<>>
    /\ warning_items = <<>>
    /\ mesh_data = Just(generate_metadata(The(obj), settings.asset_type))
    /\ files \in {<<>>, PreviousExport(The(obj), settings)}
    /\ popen_calls = <<>>
    /\ report = NoReport
    /\ platform \in Platforms
    /\ SceneUnused

NextValidation ==
    \/ RunRule
    \/ ReturnValidation
    \/ export_mesh_metadata
    \/ export_active_mesh_fbx
    \/ ImportGate

SpecValidation == InitValidation /\ [][NextValidation]_vars

\* C1: whatever the seven rules return, the result's passed flag is true
\* exactly when no error-severity rule returned a message, which is exactly
\* when the errors list is empty; warnings play no part
C1_PassedIffNoErrors ==
    The(mesh_data).validation # Nothing =>
        LET v == The(The(mesh_data).validation)
        IN  /\ v.passed = (v.errors = <<>>)
            /\ v.passed = (\A i \in 1..Len(rules) :
                             rules[i].severity = "error" => outcomes[i].message = <<>>)

\* a result that passed although two warning rules reported
C1_Witness ==
    /\ The(mesh_data).validation # Nothing
    /\ The(The(mesh_data).validation).passed
    /\ Len(The(The(mesh_data).validation).warnings) >= 2

\* C2: Popen is never called in a run whose validation result has
\* passed = false, and never under DO_NOT_IMPORT
C2_NoImportWhenFailedOrDisabled ==
    popen_calls # <<>> =>
        /\ settings.import_strictness # "DO_NOT_IMPORT"
        /\ The(mesh_data).validation # Nothing
        /\ The(The(mesh_data).validation).passed

\* the gate refused a failed asset under the lenient policy: both files are
\* written, the RuntimeError of line 265 was reported, nothing was launched
C2_Witness ==
    /\ pc = "done"
    /\ settings.import_strictness = "ERRORS_ONLY"
    /\ The(mesh_data).validation # Nothing
    /\ ~The(The(mesh_data).validation).passed
    /\ report = Cancelled("Asset failed validation checks")
    /\ popen_calls = <<>>

\* the functions registered in the rule list
RegisteredChecks == {rules[i].check : i \in 1..Len(rules)}

\* what a rule function returns on the object, the context and the settings
\* alone, whatever was called before it
ReturnOf(f) ==
    CASE f = "validate_mesh_uv" -> validate_mesh_uv(obj_data).value
      [] f = "validate_mesh_manifold" ->
            IF The(obj).type # "MESH"
            THEN <<Msg("Error checking if asset is manifold. Asset is not a mesh.")>>
            ELSE IF The(obj).non_manifold THEN <<Msg("Mesh is not manifold")>>
            ELSE <<>>
      [] f = "validate_mesh_materials" -> validate_mesh_materials(obj_data).value
      [] f = "validate_file_names" -> validate_file_names(obj_data).value
      [] f = "validate_triangle_budget" ->
            IF The(obj).type # "MESH"
            THEN <<Msg("Error validating triangle budget. Asset is not a mesh.")>>
            ELSE triangle_budget(obj_data, mesh_stats(The(obj).eval)).value
      [] f = "validate_texture_aspect_ratio" ->
            validate_texture_aspect_ratio(obj_data).value
      [] f = "validate_texture_size" -> validate_texture_size(obj_data).value

\* C17: the message list a registered rule returns is the same whichever
\* rules were called before it, in whatever order: it is determined by the
\* object, the context and the settings, so every order of the rules reports
\* the same errors and the same warnings.
C17_RulesIndependent ==
    (pc = "idle" /\ fn \in RegisteredChecks /\ ret.raised = None) =>
        ret.value = ReturnOf(fn)

\* the UV rule reported on a mesh after the manifold rule had changed the
\* selection of the edit mesh
C17_Witness ==
    /\ pc = "idle"
    /\ fn = "validate_mesh_uv"
    /\ mesh_select = "non_manifold"
    /\ ret.raised = None
    /\ ret.value = <<Msg("Asset is missing UVs.")>>

\* the rule functions the loop has called so far
CalledChecks == {rules[i].check : i \in 1..Len(outcomes)}

\* C18: a validation run for asset type MODULAR applies the grid-alignment
\* rule: by the time the result is returned, validate_modular has been called
\* and its messages were free to enter the warnings.
C18_ModularRuleApplied ==
    (/\ settings.asset_type = "MODULAR"
     /\ mesh_data # Nothing
     /\ The(mesh_data).validation # Nothing)
    => "validate_modular" \in CalledChecks

\* an object without the mesh prefix in its name, without UV layer and
\* without materials, validated as PROP_SMALL with budgets configured
CubeScenario ==
    /\ The(obj) = BareMesh(Quad)
    /\ ctx = [has_obj_type |-> TRUE, obj_type |-> "PROP_SMALL",
              materials |-> <<>>, images |-> <<>>]
    /\ config.max_triangles # Nothing

\* C19: for an object named "Cube" without UV layer and without materials,
\* asset type PROP_SMALL, validation returns a result; the rules that report
\* are MISSING_UV (and NON_MANIFOLD if the mesh is non-manifold) among the
\* errors and MISSING_MATERIALS alone among the warnings.
C19_CubeScenario ==
    (CubeScenario /\ pc = "idle") =>
        /\ fn = "generate_validation_data" => ret.raised = None
        /\ fn \in RegisteredChecks =>
              /\ ret.raised = None =>
                    (ret.value # <<>>) =
                       \/ fn \in {"validate_mesh_uv", "validate_mesh_materials"}
                       \/ fn = "validate_mesh_manifold" /\ The(obj).non_manifold

\* C20: called on a mesh with a triangle budget configured for the asset
\* type, validate_triangle_budget returns, and it reports a message if and
\* only if the evaluated triangle count is strictly greater than the budget;
\* the triangle count of obj.data plays no role.
C20_TriangleBudget ==
    (/\ pc = "idle"
     /\ fn = "validate_triangle_budget"
     /\ The(obj).type = "MESH"
     /\ config.max_triangles # Nothing
     /\ ret.raised \notin {"RuntimeError", "Exception"})
    => /\ ret.raised = None
       /\ (ret.value # <<>>) =
             (tri_count(The(obj).eval.polygons) > The(config.max_triangles))

\* the position of the rule with the given code in the rule list
RuleIndex(code) == CHOOSE i \in 1..Len(rules) : rules[i].code = code

InRegistrationOrder(items) ==
    \A i, j \in 1..Len(items) :
       i < j => RuleIndex(items[i].code) < RuleIndex(items[j].code)

\* C16: the errors list and the warnings list of a validation result, and
\* the two lists while the loop builds them, hold their items in
\* rule-registration order.
C16_RegistrationOrder ==
    /\ InRegistrationOrder(error_items)
    /\ InRegistrationOrder(warning_items)
    /\ (mesh_data # Nothing /\ The(mesh_data).validation # Nothing) =>
          /\ InRegistrationOrder(The(The(mesh_data).validation).errors)
          /\ InRegistrationOrder(The(The(mesh_data).validation).warnings)

\* a result in which every rule reported: two errors and five warnings
C16_Witness ==
    /\ mesh_data # Nothing
    /\ The(mesh_data).validation # Nothing
    /\ Len(The(The(mesh_data).validation).errors) = 2
    /\ The(The(mesh_data).validation).errors[1].code = "MISSING_UV"
    /\ The(The(mesh_data).validation).errors[2].code = "NON_MANIFOLD"
    /\ Len(The(The(mesh_data).validation).warnings) = 5
    /\ The(The(mesh_data).validation).warnings[1].code = "MISSING_MATERIALS"
    /\ The(The(mesh_data).validation).warnings[5].code = "OVER_TEXTURE_BUDGET"

\* export_active_mesh_fbx has returned
Exported == pc = "gate" \/ report = Finished

\* C15: after a successful export the geometry file and the manifest of the
\* run are both in the export directory under the base name
\* source.normalized_name, and when that name differs from the object's name
\* no file is left under the object's name.
C15_LockStep ==
    Exported =>
        LET mesh == The(mesh_data).source
        IN  /\ File(mesh.normalized_name, "json") \in DOMAIN files
            /\ files[File(mesh.normalized_name, "json")] = ManifestFile(The(mesh_data))
            /\ \E p \in DOMAIN files :
                  /\ p.stem = mesh.normalized_name
                  /\ files[p] = GeometryFile(settings.export_ext)
            /\ mesh.object_name # mesh.normalized_name =>
                  \A p \in DOMAIN files : p.stem # mesh.object_name

\* the object "a a" was exported in obj format over an earlier export: both
\* files were renamed to SM_a_a
C15_Witness ==
    /\ Exported
    /\ The(obj).name = <<"a", " ", "a">>
    /\ settings.export_ext = "obj"
    /\ DOMAIN files = {File(<<"S", "M", "_", "a", "_", "a">>, "obj"),
                       File(<<"S", "M", "_", "a", "_", "a">>, "json")}
    /\ files[File(<<"S", "M", "_", "a", "_", "a">>, "json")] = ManifestFile(The(mesh_data))

\* ------------------------------------------------------------- execute, from its first line
\* the active object of a scene: a mesh with or without a UV layer,
\* non-manifold geometry and materials, or an object that is no mesh
SceneObjects ==
    [type : {"MESH"}, name : ObjectNames, uv_layers : BOOLEAN,
     non_manifold : BOOLEAN, materials : BOOLEAN]
    \cup [type : {"EMPTY"}, name : ObjectNames, uv_layers : {FALSE},
          non_manifold : {FALSE}, materials : {FALSE}]

\* the selection cleared before the test of the active object
ensure_active_mesh_object_mut ==
    /\ pc = "execute"
    /\ IF obj = Nothing \/ The(obj).type # "MESH"
       THEN /\ pc' = "done"
            /\ report' = Escaped("RuntimeError")
            /\ selected' = {}
       ELSE /\ pc' = "generate_metadata"
            /\ report' = report
            /\ selected' = {"active"}
    /\ UNCHANGED <<loopVars, settings, obj, mesh_data, files, popen_calls,
                   platform, sceneVars>>

\* ensure_active_mesh_object(), called at line 241 outside the try block
ensure_active_mesh_object ==
    /\ pc = "execute"
    /\ IF obj = Nothing \/ The(obj).type # "MESH"
       THEN \* raise RuntimeError("Please select a mesh to export.")
            /\ pc' = "done"
            /\ report' = Escaped("RuntimeError")
            /\ selected' = selected
       ELSE \* select_all(action="DESELECT"); obj.select_set(True)
            /\ pc' = "generate_metadata"
            /\ report' = report
            /\ selected' = {"active"}
    /\ UNCHANGED <<loopVars, settings, obj, mesh_data, files, popen_calls,
                   platform, sceneVars>>

\* the positional arguments of the call at line 253 of asset_forge.py
generate_metadata_args ==
    <<"obj", "export_dir", "ue_project_path", "ue_assets_dir", "master_mat_path",
      "settings.asset_type", "settings.export_ext", "bpy.context">>

\* the parameters of generate_metadata, none of which has a default
generate_metadata_params ==
    <<"obj", "export_dir", "ue_project_path", "ue_assets_dir", "material_path",
      "asset_type", "context">>

\* line 253: mesh_data = mesh_metadata.generate_metadata(...), outside the
\* try block
call_generate_metadata ==
    /\ pc = "generate_metadata"
    /\ IF Binds(generate_metadata_args, generate_metadata_params)
       THEN /\ mesh_data' = Just(generate_metadata(The(obj), settings.asset_type))
            /\ pc' = "generate_validation_data"
            /\ report' = report
       ELSE /\ mesh_data' = mesh_data
            /\ pc' = "done"
            /\ report' = Escaped("TypeError")
    /\ UNCHANGED <<loopVars, settings, obj, selected, files, popen_calls,
                   platform, sceneVars>>

\* the operator is invoked on any scene, with any settings
Init ==
    /\ pc = "execute"
    /\ settings \in Settings
    /\ obj \in {Nothing} \cup {Just(o) : o \in SceneObjects}
    /\ selected \in SUBSET ObjIds
    /\ outcomes = <<>>
    /\ rule_idx = 1
    /\ error_items = <<>>
    /\ warning_items = <<>>
    /\ mesh_data = Nothing
    /\ files = <<>>
    /\ popen_calls = <<>>
    /\ report = NoReport
    /\ platform \in Platforms
    /\ SceneUnused

\* no behaviour gets past line 253, so the later steps of execute (those of
\* NextValidation) are no part of this next-state relation: see ExecuteStops
Next ==
    \/ ensure_active_mesh_object
    \/ call_generate_metadata

Spec == Init /\ [][Next]_vars

\* every run of execute ends at line 241 or at line 253
ExecuteStops == pc \in {"execute", "generate_metadata", "done"}

\* C13: when no object is active or the active object is not a mesh, execute
\* ends at once with the RuntimeError of ensure_active_mesh_object: no
\* metadata is generated, no validation is run, no file is written, the
\* selection is left as it was and no import is launched.
C13_NoMeshStopsFirst ==
    [][(obj = Nothing \/ The(obj).type # "MESH") =>
          /\ pc = "execute"
          /\ pc' = "done"
          /\ report' = Escaped("RuntimeError")
          /\ selected' = selected
          /\ mesh_data' = mesh_data /\ mesh_data = Nothing
          /\ files' = files
          /\ popen_calls' = popen_calls
          /\ UNCHANGED loopVars]_vars

\* the run on an active empty object has ended, the other object still
\* selected
C13_Witness ==
    /\ pc = "done"
    /\ obj # Nothing
    /\ The(obj).type = "EMPTY"
    /\ report = Escaped("RuntimeError")
    /\ selected = {"other"}
    /\ mesh_data = Nothing
    /\ files = <<>>
    /\ popen_calls = <<>>

\* C3: for a mesh on which no error rule and one warning rule reports (UV
\* layer present, manifold, no material), a finished run has called Popen
\* under ERRORS_ONLY and has not under ERRORS_AND_WARNINGS
C3_WarningsBlockOnlyUnderStricter ==
    ( /\ pc = "done"
      /\ obj # Nothing
      /\ The(obj).type = "MESH"
      /\ The(obj).uv_layers
      /\ ~The(obj).non_manifold
      /\ ~The(obj).materials )
    => /\ settings.import_strictness = "ERRORS_ONLY" => popen_calls # <<>>
       /\ settings.import_strictness = "ERRORS_AND_WARNINGS" => popen_calls = <<>>

\* C4: for a mesh without a UV layer (MISSING_UV reports) and without
\* materials (nothing to classify), a finished run has written the manifest,
\* with validation.passed = false, and the geometry file
C4_ManifestWrittenDespiteErrors ==
    ( /\ pc = "done"
      /\ obj # Nothing
      /\ The(obj).type = "MESH"
      /\ ~The(obj).uv_layers
      /\ ~The(obj).materials )
    => /\ \E p \in DOMAIN files :
            /\ files[p].kind = "manifest"
            /\ The(files[p].data).validation # Nothing
            /\ ~The(The(files[p].data).validation).passed
       /\ \E p \in DOMAIN files : files[p].kind = "geometry"

\* C24: no step of the statistics functions or of the rule functions
\* changes the object's mesh: the vertices, edges and polygons of obj.data
\* and of the evaluated mesh are after each step what they were before it,
\* whatever the rules report.
C24_GeometryUntouched ==
    [][(obj # Nothing /\ obj' # Nothing) =>
          /\ The(obj').data = The(obj).data
          /\ The(obj').eval = The(obj).eval
          /\ The(obj').non_manifold = The(obj).non_manifold]_vars

\* validate_mesh_manifold has reported a non-manifold mesh, whose pyramid is
\* still its data
C24_Witness ==
    /\ pc = "idle"
    /\ fn = "validate_mesh_manifold"
    /\ ret = Ret(<<Msg("Mesh is not manifold")>>)
    /\ mesh_select = "non_manifold"
    /\ The(obj).data = Pyramid

\* the item of list items at position i comes from a rule of the given
\* severity that was called and returned its non-empty message list
RoutedFrom(items, i, severity) ==
    \E j \in 1..Len(outcomes) :
       /\ rules[j].code = items[i].code
       /\ rules[j].severity = severity
       /\ ~outcomes[j].raised
       /\ outcomes[j].message # <<>>
       /\ items[i].message = outcomes[j].message

\* C25: every item of errors comes from an error-severity rule and every
\* item of warnings from a warning-severity rule, each from a rule that
\* returned a non-empty message list; no code appears twice in a list and no
\* code appears in both lists (each rule contributes at most one item).
C25_SeverityRouting ==
    /\ \A i \in 1..Len(error_items) : RoutedFrom(error_items, i, "error")
    /\ \A i \in 1..Len(warning_items) : RoutedFrom(warning_items, i, "warning")
    /\ \A i, j \in 1..Len(error_items) :
          i # j => error_items[i].code # error_items[j].code
    /\ \A i, j \in 1..Len(warning_items) :
          i # j => warning_items[i].code # warning_items[j].code
    /\ \A i \in 1..Len(error_items) : \A j \in 1..Len(warning_items) :
          error_items[i].code # warning_items[j].code
    /\ Len(error_items) + Len(warning_items)
          = Cardinality({j \in 1..Len(outcomes) :
                          ~outcomes[j].raised /\ outcomes[j].message # <<>>})
    /\ (mesh_data # Nothing /\ The(mesh_data).validation # Nothing) =>
          /\ The(The(mesh_data).validation).errors = error_items
          /\ The(The(mesh_data).validation).warnings = warning_items

\* both error rules and two of the five warning rules reported, the other
\* three returned []: two errors and two warnings are in the result
C25_Witness ==
    /\ mesh_data # Nothing /\ The(mesh_data).validation # Nothing
    /\ Len(The(The(mesh_data).validation).errors) = 2
    /\ Len(The(The(mesh_data).validation).warnings) = 2
    /\ outcomes[3].message = <<>>
    /\ The(The(mesh_data).validation).warnings[1].code = "BAD_NAME"
    /\ Len(The(The(mesh_data).validation).warnings[1].message) = 2

\* ------------------------------------------------------------- the export functions, called in turn
\* mesh_metadata.generate_metadata(obj, export_dir, ue_project_path,
\* ue_assets_dir, material_path, asset_type, context), lines 160-221, called
\* with the seven arguments of its signature. Line 179 calls
\* get_evaluated_mesh_stats: the host refuses to_mesh (RuntimeError, nothing
\* acquired), or hands out a mesh that the finally clause releases whether
\* the try block read it or raised. Line 181 calls get_material_data, which
\* makes one entry per slot and stops at the first slot whose entry raises
\* (AssertionError of line 125 or 46, StopIteration of line 49). Only when
\* both calls return is the dictionary of lines 183-220 returned; an
\* exception leaves the function and no manifest exists
generate_metadata_call ==
    /\ pc = "functions"
    /\ fn' = "generate_metadata"
    /\ entry_mode' = mode
    /\ mode_set_calls' = <<>>
    /\ held' = held
    /\ \E host \in {"to_mesh_raises", "read_raises", "hands_out"} :
         LET slots == The(obj).material_slots
             failing == {i \in 1..Len(slots) :
                           material_entry(slots[i]).raised # None}
             stop == IF failing = {} THEN Len(slots) + 1
                     ELSE CHOOSE i \in failing : \A j \in failing : i <= j
             made == [i \in 1..(stop - 1) |->
                        The(material_entry(slots[i]).value)]
             manifest == [materials |-> made]
                         @@ generate_metadata(The(obj), settings.asset_type)
             result ==
                 IF host = "to_mesh_raises" THEN Raise("RuntimeError")
                 ELSE IF host = "read_raises" THEN Raise("Exception")
                 ELSE IF failing # {} THEN material_entry(slots[stop])
                 ELSE Ret(<<manifest>>)
         IN  /\ to_mesh_calls' = IF host = "to_mesh_raises" THEN 0 ELSE 1
             /\ to_mesh_clear_calls' = IF host = "to_mesh_raises" THEN 0 ELSE 1
             /\ materials' = IF host = "hands_out" THEN made ELSE materials
             /\ slot_idx' = IF host = "hands_out" THEN stop ELSE slot_idx
             /\ ret' = result
             /\ IF result.raised = None
                THEN /\ mesh_data' = Just(manifest)
                     /\ pc' = "export_mesh_metadata"
                     /\ report' = report
                ELSE /\ mesh_data' = mesh_data
                     /\ pc' = "done"
                     /\ report' = Escaped("Exception")
    /\ UNCHANGED <<loopVars, settings, obj, selected, files, popen_calls, platform>>
    /\ UNCHANGED <<ctx, config, mode, mesh_select, prev_mode, pending, sock, extVars>>

\* a caller holding a mesh object, an export format and an export directory,
\* empty or left by an earlier export of the object, before it calls
\* generate_metadata, export_mesh_metadata and export_active_mesh_fbx
InitExport ==
    /\ pc = "functions"
    /\ settings \in Settings
    /\ obj \in {Just([type |-> "MESH", name |-> n, material_slots |-> s]) :
                  n \in ObjectNames,
                  s \in UNION {[1..k -> Slots] : k \in 0..MaxSlots}}
    /\ selected = {"active"}
    /\ outcomes = <<>>
    /\ rule_idx = 1
    /\ error_items = <<>>
    /\ warning_items = <<>>
    /\ mesh_data = Nothing
    /\ files \in {<<>>, PreviousExport(The(obj), settings)}
    /\ popen_calls = <<>>
    /\ report = NoReport
    /\ platform \in Platforms
    /\ SceneUnused

NextExport ==
    \/ generate_metadata_call
    \/ export_mesh_metadata
    \/ export_active_mesh_fbx

SpecExport == InitExport /\ [][NextExport]_vars

\* C26: after a successful export, in either format and for any object
\* name, the export directory holds a geometry file at the path the
\* manifest records as export.export_path.
C26_GeometryAtExportPath ==
    Exported =>
        /\ The(mesh_data).export.export_path \in DOMAIN files
        /\ files[The(mesh_data).export.export_path].kind = "geometry"

\* C22: every failure of an export run (selection error, classification
\* error, validation-rule exception, I/O error, blocked ingestion) is
\* reported as one error message with the result CANCELLED; no exception
\* leaves execute.
C22_FailuresReported ==
    /\ report.raised = None
    /\ (pc = "done" /\ report # Finished) =>
           (report.level = "ERROR" /\ report.returned = "CANCELLED")

\* ------------------------------------------------------------- naming functions, one call at a time
\* every string over Chars of at most MaxNameLen characters
RawNames == UNION {[1..n -> Chars] : n \in 0..MaxNameLen}

\* the three normalizers called by mesh_metadata.py, and the prefix of each
Normalizers == {"normalize_mesh_name", "normalize_texture_name",
                "normalize_material_instance_name"}

required_prefix(f) ==
    CASE f = "normalize_mesh_name" -> mesh_prefix
      [] f = "normalize_texture_name" -> texture_prefix
      [] f = "normalize_material_instance_name" -> material_instance_prefix

normalize(f, name) ==
    CASE f = "normalize_mesh_name" -> normalize_mesh_name(name)
      [] f = "normalize_texture_name" -> normalize_texture_name(name)
      [] f = "normalize_material_instance_name" ->
             normalize_material_instance_name(name)

nameFrame == <<runVars, loopVars, ctx, config, mode, mesh_select, entry_mode,
               prev_mode, mode_set_calls, held, to_mesh_calls,
               to_mesh_clear_calls, pending, sock, slot_idx, materials>>

call_normalize(f) ==
    /\ pc = "idle"
    /\ fn' = f
    /\ ret' = Ret(normalize(f, raw_name))
    /\ UNCHANGED <<pc, raw_name, ueVars, cfgVars>>
    /\ UNCHANGED nameFrame

\* mesh_metadata.py:174
call_normalize_mesh_name == call_normalize("normalize_mesh_name")
\* mesh_metadata.py:77 and 103
call_normalize_texture_name == call_normalize("normalize_texture_name")
\* mesh_metadata.py:143
call_normalize_material_instance_name ==
    call_normalize("normalize_material_instance_name")

\* the normalizer is called again on the name it returned (names stay
\* within MaxNameLen characters)
call_normalize_again ==
    /\ pc = "idle"
    /\ fn \in Normalizers
    /\ raw_name # ret.value
    /\ Len(ret.value) <= MaxNameLen
    /\ raw_name' = ret.value
    /\ ret' = Ret(normalize(fn, ret.value))
    /\ UNCHANGED <<pc, fn, ueVars, cfgVars>>
    /\ UNCHANGED nameFrame

InitNaming ==
    /\ pc = "idle"
    /\ settings = [import_strictness |-> "ERRORS_ONLY", asset_type |-> "PROP_SMALL",
                   export_ext |-> "fbx"]
    /\ obj = Nothing
    /\ selected = {}
    /\ outcomes = <<>>
    /\ rule_idx = 1
    /\ error_items = <<>>
    /\ warning_items = <<>>
    /\ mesh_data = Nothing
    /\ files = <<>>
    /\ popen_calls = <<>>
    /\ report = NoReport
    /\ platform = "linux"
    /\ ctx = [has_obj_type |-> FALSE, obj_type |-> None, materials |-> <<>>,
              images |-> <<>>]
    /\ config = [max_triangles |-> Nothing, max_texture_size |-> Nothing,
                 unit |-> 0]
    /\ mode = "OBJECT"
    /\ mesh_select = "user"
    /\ fn = None
    /\ entry_mode = "OBJECT"
    /\ prev_mode = None
    /\ mode_set_calls = <<>>
    /\ held = 0
    /\ to_mesh_calls = 0
    /\ to_mesh_clear_calls = 0
    /\ pending = Ret(<<>>)
    /\ sock = Nothing
    /\ slot_idx = 1
    /\ materials = <<>>
    /\ ret = Ret(<<>>)
    /\ raw_name \in RawNames
    /\ UeUnused
    /\ CfgUnused

NextNaming ==
    \/ call_normalize_mesh_name
    \/ call_normalize_texture_name
    \/ call_normalize_material_instance_name
    \/ call_normalize_again

SpecNaming == InitNaming /\ [][NextNaming]_vars

\* every character of the name is legal and the name starts with the prefix
Conformant(prefix, name) ==
    /\ \A i \in 1..Len(name) : name[i] \in LegalChars
    /\ Len(name) >= Len(prefix)
    /\ SubSeq(name, 1, Len(prefix)) = prefix

\* C21: for each kind (mesh, texture, material instance) and every string,
\* normalizing the normalized name gives the normalized name again; a name
\* that starts with the kind's prefix comes back starting with that prefix
\* once (same length: nothing was prepended); and a conformant name comes
\* back unchanged.
C21_NormalizeIdempotent ==
    (pc = "idle" /\ fn \in Normalizers) =>
        LET prefix == required_prefix(fn)
            starts == /\ Len(raw_name) >= Len(prefix)
                      /\ SubSeq(raw_name, 1, Len(prefix)) = prefix
        IN  /\ normalize(fn, ret.value) = ret.value
            /\ Len(ret.value) >= Len(prefix)
            /\ SubSeq(ret.value, 1, Len(prefix)) = prefix
            /\ starts => Len(ret.value) = Len(raw_name)
            /\ Conformant(prefix, raw_name) => ret.value = raw_name

\* "MI_ " was normalized as a material instance name: the blank was
\* replaced and the prefix kept, "MI__"
C21_Witness ==
    /\ pc = "idle"
    /\ fn = "normalize_material_instance_name"
    /\ raw_name = <<"M", "I", "_", " ">>
    /\ ret.value = <<"M", "I", "_", "_">>

\* ------------------------------------------------------------- engine/ue_import.py
\* the engine's command line, as far as get_cli_value reads it: its flags
\* "-<flag>=<value>", in the order Popen was given them
EngineScript == [flag |-> "ExecutePythonScript", value |-> File(<<"ue_import">>, "py")]

\* asset_forge.py:220-226, the arguments run_ue_import hands to Popen
CommandLine(manifest_path) ==
    <<EngineScript, [flag |-> "manifest", value |-> manifest_path]>>

\* the script run by the engine without a -manifest flag
BareCommandLine == <<EngineScript>>

\* get_cli_value(name): the value of the first flag called name, or None
get_cli_value(name, cmd) ==
    LET hits == {i \in 1..Len(cmd) : cmd[i].flag = name}
    IN  IF hits = {} THEN Nothing
        ELSE Just(cmd[CHOOSE i \in hits : \A j \in hits : i <= j].value)

\* one call of the script into the engine: the function, the asset or folder
\* it is about, the material index where there is one, and whether it
\* returned (ok) or raised
Call(op, name, index, ok) == [op |-> op, name |-> name, index |-> index, ok |-> ok]

\* the geometry check moved after the folder creation: only the manifest is
\* checked
ingest_asset_inputs_mut(fs, json_path) ==
    IF json_path \notin DOMAIN fs THEN Raise("FileNotFoundError")
    ELSE IF fs[json_path].kind # "manifest" THEN Raise("JSONDecodeError")
    ELSE Ret(<<The(fs[json_path].data)>>)

\* ingest_asset, lines 185-198: the manifest must exist and parse, and the
\* file its export.export_path names must exist
ingest_asset_inputs(fs, json_path) ==
    IF json_path \notin DOMAIN fs THEN Raise("FileNotFoundError")
    ELSE IF fs[json_path].kind # "manifest" THEN Raise("JSONDecodeError")
    ELSE LET data == The(fs[json_path].data)
         IN  IF data.export.export_path \notin DOMAIN fs
             THEN Raise("FileNotFoundError")
             ELSE Ret(<<data>>)

\* data.get("materials", [])
material_data(data) == IF "materials" \in DOMAIN data THEN data.materials ELSE <<>>

\* lines 204-207
mesh_folder(asset_name) == asset_name \o <<"/", "Mesh">>
tex_folder(asset_name) == asset_name \o <<"/", "Textures">>
mat_folder(asset_name) == asset_name \o <<"/", "Materials">>

\* the keys of a material's parameters, in the order get_material_data
\* inserts them (mesh_metadata.py:145-152) and json keeps them
ParameterOrder == <<"base_color", "roughness", "metallic", "normal",
                    "emission_color", "alpha">>

\* mat.get("parameters", {}).items(), for every material in turn: the
\* parameter dictionaries as _import_textures visits them
visited_slots(mats) ==
    [k \in 1..(Len(mats) * Len(ParameterOrder)) |->
        LET mat == mats[((k - 1) \div Len(ParameterOrder)) + 1]
            key == ParameterOrder[((k - 1) % Len(ParameterOrder)) + 1]
        IN  IF "parameters" \in DOMAIN mat /\ key \in DOMAIN mat.parameters
            THEN Just(mat.parameters[key])
            ELSE Nothing]

\* os.path.splitext(name)[0]: the name up to the last dot of its last path
\* component, unless that component has only dots before it (leading dots
\* are part of the root)
splitext(name) ==
    LET seps == {i \in 1..Len(name) : name[i] = "/"}
        dots == {i \in 1..Len(name) : name[i] = "."}
        sepIndex == IF seps = {} THEN 0 ELSE CHOOSE i \in seps : \A j \in seps : j <= i
        dotIndex == IF dots = {} THEN 0 ELSE CHOOSE i \in dots : \A j \in dots : j <= i
    IN  IF /\ dotIndex > sepIndex
           /\ \E i \in (sepIndex + 1)..(dotIndex - 1) : name[i] # "."
        THEN SubSeq(name, 1, dotIndex - 1)
        ELSE name

\* _import_textures, lines 78-115: the sequences of engine calls it can make.
\* A texture parameter whose file exists and whose path is not in
\* texture_lookup_by_path is imported. When the asset loaded from the import
\* is an unreal.Texture it is renamed if the normalized name differs from the
\* original one, and the path is recorded; when it is not (another asset
\* class, or no asset at all) nothing is renamed or recorded, so a later
\* parameter with the same path imports the file again.
_import_textures(mats, disk) ==
    LET slots == visited_slots(mats)
        n == Len(slots)
        is_texture(k) == slots[k] # Nothing /\ The(slots[k]).type = "texture"
        paths == { The(slots[k]).path : k \in {j \in 1..n : is_texture(j)} }
        rest[k \in 1..(n + 1), lookup \in SUBSET paths] ==
            IF k = n + 1 THEN {<<>>}
            ELSE IF \/ ~is_texture(k)
                    \/ The(slots[k]).path \notin disk
                    \/ The(slots[k]).path \in lookup
                 THEN rest[k + 1, lookup]
                 ELSE LET slot == The(slots[k])
                          import == Call("_import_file", slot.original_name, 0, TRUE)
                          rename ==
                              IF slot.original_name # slot.normalized_name
                              THEN <<Call("rename_asset", splitext(slot.normalized_name),
                                          0, TRUE)>>
                              ELSE <<>>
                      IN  { <<import>> \o rename \o r :
                              r \in rest[k + 1, lookup \cup {slot.path}] }
                          \cup { <<import>> \o r : r \in rest[k + 1, lookup] }
    IN  rest[1, {}]

\* how the body of the try block of one material ends (lines 229-248)
MaterialOutcomes == {"ok", "create_raises", "populate_raises", "assign_raises"}

\* the engine-side calls of one iteration of the material loop
material_calls(mat_name, index, outcome) ==
    LET create == Call("_create_material_instance", mat_name, index,
                       outcome # "create_raises")
        populate == Call("_populate_material_instance", mat_name, index,
                         outcome # "populate_raises")
        saved == Call("save_loaded_asset", mat_name, index, TRUE)
        add == IF index > 0 THEN <<Call("add_material", mat_name, index, TRUE)>>
               ELSE <<>>
        set == Call("set_material", mat_name, index, outcome # "assign_raises")
        saved_mesh == Call("save_loaded_asset", <<"mesh_asset">>, index, TRUE)
    IN  IF outcome = "create_raises" THEN <<create>>
        ELSE IF outcome = "populate_raises" THEN <<create, populate>>
        ELSE IF outcome = "assign_raises" THEN <<create, populate, saved>> \o add \o <<set>>
        ELSE <<create, populate, saved>> \o add \o <<set, saved_mesh>>

\* the exception ends the loop
next_material_mut(idx, outcome, n) == IF outcome = "ok" THEN idx + 1 ELSE n + 1

\* lines 249-251: the handler logs and the loop goes on with the next material
next_material(idx, outcome, n) == idx + 1

ueFrame == <<pc, nameFrame, fn, ret, raw_name, disk_textures, cfgVars>>

\* the engine process starts: launched by Popen with the manifest flag, or
\* running the script without one
engine_start ==
    /\ ue_pc = "off"
    /\ \E cmd \in {BareCommandLine}
                  \cup {CommandLine(popen_calls[i]) : i \in 1..Len(popen_calls)} :
          ue_cmd' = cmd
    /\ ue_pc' = "main"
    /\ UNCHANGED <<ue_data, ue_idx, ue_calls, ue_ret>>
    /\ UNCHANGED ueFrame

\* main(), lines 263-270
main ==
    /\ ue_pc = "main"
    /\ IF get_cli_value("manifest", ue_cmd) = Nothing
       THEN /\ ue_ret' = Ret(<<2>>)
            /\ ue_pc' = "exited"
       ELSE /\ ue_ret' = ue_ret
            /\ ue_pc' = "ingest_asset"
    /\ UNCHANGED <<ue_cmd, ue_data, ue_idx, ue_calls>>
    /\ UNCHANGED ueFrame

\* ingest_asset, lines 184-198
ingest_asset_open ==
    /\ ue_pc = "ingest_asset"
    /\ LET inputs == ingest_asset_inputs(files, The(get_cli_value("manifest", ue_cmd)))
       IN  IF inputs.raised # None
           THEN /\ ue_ret' = Raise(inputs.raised)
                /\ ue_pc' = "exited"
                /\ ue_data' = ue_data
           ELSE /\ ue_data' = Just(The(inputs.value))
                /\ ue_pc' = "import_fbx"
                /\ ue_ret' = ue_ret
    /\ UNCHANGED <<ue_cmd, ue_idx, ue_calls>>
    /\ UNCHANGED ueFrame

\* ingest_asset, lines 200-216: the three folders, then _import_fbx, which
\* raises RuntimeError unless the engine made a static mesh of the file
ingest_asset_import_fbx ==
    /\ ue_pc = "import_fbx"
    /\ LET data == The(ue_data)
           asset_name == data.source.normalized_name
           fbx_path == data.export.export_path
           folders == <<Call("_ensure_folder", mesh_folder(asset_name), 0, TRUE),
                        Call("_ensure_folder", tex_folder(asset_name), 0, TRUE),
                        Call("_ensure_folder", mat_folder(asset_name), 0, TRUE)>>
       IN  \E is_static_mesh \in BOOLEAN :
             /\ is_static_mesh => fbx_path \in DOMAIN files
             /\ IF is_static_mesh
                THEN /\ ue_calls' = ue_calls \o folders
                          \o <<Call("_import_fbx", fbx_path.stem, 0, TRUE),
                               Call("save_loaded_asset", <<"mesh_asset">>, 0, TRUE)>>
                     /\ ue_pc' = "textures"
                     /\ ue_ret' = ue_ret
                ELSE /\ ue_calls' = ue_calls \o folders
                          \o <<Call("_import_fbx", fbx_path.stem, 0, FALSE)>>
                     /\ ue_pc' = "exited"
                     /\ ue_ret' = Raise("RuntimeError")
    /\ UNCHANGED <<ue_cmd, ue_data, ue_idx>>
    /\ UNCHANGED ueFrame

\* ingest_asset, lines 218-225
ingest_asset_textures ==
    /\ ue_pc = "textures"
    /\ \E calls \in _import_textures(material_data(The(ue_data)), disk_textures) :
          ue_calls' = ue_calls \o calls
    /\ ue_idx' = 1
    /\ ue_pc' = "materials"
    /\ UNCHANGED <<ue_cmd, ue_data, ue_ret>>
    /\ UNCHANGED ueFrame

\* ingest_asset, lines 227-251: one iteration of the loop over material_data
\* (index is ue_idx - 1)
ingest_asset_material ==
    /\ ue_pc = "materials"
    /\ ue_idx <= Len(material_data(The(ue_data)))
    /\ LET mat == material_data(The(ue_data))[ue_idx]
           mat_name == IF "normalized_name" \in DOMAIN mat THEN mat.normalized_name
                       ELSE <<"MaterialInstance">>
       IN  \E outcome \in MaterialOutcomes :
             /\ ue_calls' = ue_calls \o material_calls(mat_name, ue_idx - 1, outcome)
             /\ ue_idx' = next_material(ue_idx, outcome,
                                        Len(material_data(The(ue_data))))
    /\ UNCHANGED <<ue_pc, ue_cmd, ue_data, ue_ret>>
    /\ UNCHANGED ueFrame

\* the loop is over: ingest_asset returns and main returns 0 (line 272)
main_return ==
    /\ ue_pc = "materials"
    /\ ue_idx > Len(material_data(The(ue_data)))
    /\ ue_ret' = Ret(<<0>>)
    /\ ue_pc' = "exited"
    /\ UNCHANGED <<ue_cmd, ue_data, ue_idx, ue_calls>>
    /\ UNCHANGED ueFrame

NextEngine ==
    \/ engine_start
    \/ main
    \/ ingest_asset_open
    \/ ingest_asset_import_fbx
    \/ ingest_asset_textures
    \/ ingest_asset_material
    \/ main_return

\* ------------------------------------------------------------- ingestion of an export directory
\* the entries get_material_data makes of the materials it can classify
ManifestMaterials ==
    { The(material_entry(Just(m)).value) :
        m \in {mm \in Materials : material_entry(Just(mm)).raised = None} }

\* the materials lists of a manifest: one entry per slot
MaterialLists == UNION { [1..n -> ManifestMaterials] : n \in 0..MaxSlots }

\* the object the manifests of InitIngest were made of
IngestObject == [type |-> "MESH", name |-> <<"S", "M", "_", "a">>]

\* json.dump of generate_metadata's dictionary after line 254, with its
\* materials list
IngestManifest(mats) ==
    [materials |-> mats]
    @@ [generate_metadata(IngestObject, "PROP_SMALL") EXCEPT
          !.validation = Just(ValidationResult(<<>>, <<>>))]

\* the image files the materials of the model refer to
TexturePaths == { abspath(Image(<<"a">>).filepath),
                  abspath(Image(<<"T", "_", "a">>).filepath) }

\* an export directory as ingestion may find it: the manifest and the
\* geometry file of an export, each still there or gone
IngestDirs(manifest) ==
    LET json == File(manifest.source.normalized_name, "json")
        both == WriteFile(WriteFile(<<>>, manifest.export.export_path,
                                    GeometryFile("fbx")),
                          json, ManifestFile(manifest))
    IN  { [p \in keep |-> both[p]] : keep \in SUBSET DOMAIN both }

\* the engine process is about to start, on its own or launched by an
\* earlier export run that handed it the manifest path
InitIngest ==
    /\ pc = "done"
    /\ settings = [import_strictness |-> "ERRORS_ONLY", asset_type |-> "PROP_SMALL",
                   export_ext |-> "fbx"]
    /\ obj = Just(IngestObject)
    /\ selected = {"active"}
    /\ outcomes = <<>>
    /\ rule_idx = 1
    /\ error_items = <<>>
    /\ warning_items = <<>>
    /\ \E mats \in MaterialLists :
         /\ mesh_data = Just(IngestManifest(mats))
         /\ files \in IngestDirs(IngestManifest(mats))
    /\ popen_calls = <<run_ue_import_manifest(The(mesh_data).source.normalized_name)>>
    /\ report = Finished
    /\ platform = "linux"
    /\ ctx = [has_obj_type |-> FALSE, obj_type |-> None, materials |-> <<>>,
              images |-> <<>>]
    /\ config = [max_triangles |-> Nothing, max_texture_size |-> Nothing,
                 unit |-> 0]
    /\ mode = "OBJECT"
    /\ mesh_select = "user"
    /\ fn = None
    /\ entry_mode = "OBJECT"
    /\ prev_mode = None
    /\ mode_set_calls = <<>>
    /\ held = 0
    /\ to_mesh_calls = 0
    /\ to_mesh_clear_calls = 0
    /\ pending = Ret(<<>>)
    /\ sock = Nothing
    /\ slot_idx = 1
    /\ materials = <<>>
    /\ ret = Ret(<<>>)
    /\ raw_name = <<>>
    /\ ue_pc = "off"
    /\ ue_cmd = <<>>
    /\ ue_data = Nothing
    /\ ue_idx = 1
    /\ ue_calls = <<>>
    /\ ue_ret = Ret(<<>>)
    /\ disk_textures \in SUBSET TexturePaths
    /\ CfgUnused

SpecIngest == InitIngest /\ [][NextEngine]_vars

\* ------------------------------------------------------------- the export run and the engine process
\* what the seven rules returned in the runs of InitLaunch: nothing, one
\* warning (MISSING_MATERIALS), or one error (MISSING_UV)
OutcomesWith(reporting) ==
    [i \in 1..Len(rules) |->
        [raised |-> FALSE,
         message |-> IF i \in reporting THEN Messages(1) ELSE <<>>]]

LaunchOutcomes == {OutcomesWith({}), OutcomesWith({3}), OutcomesWith({1})}

\* the items lines 76-82 collect for one severity from these outcomes
ItemsOf(outs, severity) ==
    LET reporting == SelectSeq([i \in 1..Len(rules) |-> i],
                               LAMBDA i : /\ rules[i].severity = severity
                                          /\ outs[i].message # <<>>)
    IN  [k \in 1..Len(reporting) |->
            [code |-> rules[reporting[k]].code,
             message |-> outs[reporting[k]].message]]

\* the scene as the rule calls that returned outs leave it: the object back
\* in object mode, the edit mesh's selection that of validate_mesh_manifold,
\* no evaluated mesh held, and the last rule called one that reads only
SceneAfterRules(outs) ==
    /\ ctx = [has_obj_type |-> FALSE, obj_type |-> None, materials |-> <<>>,
              images |-> <<>>]
    /\ config = [max_triangles |-> Nothing, max_texture_size |-> Nothing,
                 unit |-> 0]
    /\ mode = "OBJECT"
    /\ mesh_select = select_non_manifold(deselect_all("user"),
                                         [non_manifold |->
                                            outs[RuleIndex("NON_MANIFOLD")].message # <<>>])
    /\ fn = rules[Len(rules)].check
    /\ entry_mode = "OBJECT"
    /\ prev_mode = "OBJECT"
    /\ mode_set_calls = <<>>
    /\ held = 0
    /\ to_mesh_calls = 0
    /\ to_mesh_clear_calls = 0
    /\ pending = Ret(<<>>)
    /\ sock = Nothing
    /\ slot_idx = 1
    /\ materials = <<>>
    /\ ret = Ret(outs[Len(rules)].message)
    /\ ExtUnused

\* line 256 of execute, reached with the result of generate_validation_data
\* in mesh_data; the engine process has not started
InitLaunch ==
    /\ pc = "export_mesh_metadata"
    /\ settings \in {st \in Settings : st.asset_type = "PROP_SMALL"}
    /\ obj \in {Just(o) : o \in MeshObjects}
    /\ selected = {"active"}
    /\ outcomes \in LaunchOutcomes
    /\ rule_idx = Len(rules) + 1
    /\ error_items = ItemsOf(outcomes, "error")
    /\ warning_items = ItemsOf(outcomes, "warning")
    /\ \E mats \in MaterialLists :
          mesh_data = Just([materials |-> mats]
                           @@ [generate_metadata(The(obj), settings.asset_type) EXCEPT
                                 !.validation =
                                     Just(ValidationResult(error_items, warning_items))])
    /\ files \in {<<>>, PreviousExport(The(obj), settings)}
    /\ popen_calls = <<>>
    /\ report = NoReport
    /\ platform \in Platforms
    /\ SceneAfterRules(outcomes)

NextLaunch ==
    \/ export_mesh_metadata
    \/ export_active_mesh_fbx
    \/ ImportGate
    \/ NextEngine

SpecLaunch == InitLaunch /\ [][NextLaunch]_vars

\* the manifest and the geometry file of this run are in the export
\* directory, under the normalized name
BothWritten ==
    LET mesh == The(mesh_data).source
    IN  /\ File(mesh.normalized_name, "json") \in DOMAIN files
        /\ files[File(mesh.normalized_name, "json")] = ManifestFile(The(mesh_data))
        /\ \E p \in DOMAIN files :
              /\ p.stem = mesh.normalized_name
              /\ files[p] = GeometryFile(settings.export_ext)

\* C23: Popen is called only when the manifest and the geometry file of the
\* run are written (and renamed), the path it is handed is the path of that
\* manifest in the export directory, and the directory is the same right
\* after the call; and whenever main() finds no -manifest flag it returns 2
\* and has made no call into the engine.
C23_LaunchAfterWrite ==
    /\ [][popen_calls' # popen_calls =>
            /\ BothWritten
            /\ files' = files
            /\ popen_calls' = Append(popen_calls,
                   File(The(mesh_data).source.normalized_name, "json"))]_vars
    /\ []((ue_pc \notin {"off", "main"} /\ get_cli_value("manifest", ue_cmd) = Nothing)
            => (ue_pc = "exited" /\ ue_ret = Ret(<<2>>) /\ ue_calls = <<>>
                /\ ue_data = Nothing))

\* the object "a" was exported and the engine launched on SM_a.json, and an
\* engine process started without the flag has returned 2
C23_Witness ==
    /\ The(obj).name = <<"a">>
    /\ popen_calls = <<File(<<"S", "M", "_", "a">>, "json")>>
    /\ File(<<"S", "M", "_", "a">>, "json") \in DOMAIN files
    /\ ue_cmd = BareCommandLine
    /\ ue_ret = Ret(<<2>>)

\* ------------------------------------------------------------- config
\* a value of the settings: a number, or a dictionary from keys to values
Leaf(v) == [kind |-> "leaf", value |-> v, items |-> <<>>]
Dict(items) == [kind |-> "dict", value |-> 0, items |-> items]

\* dotted keys: strings over a letter and the dot
KeyChars == {"a", "."}
KeyPaths == UNION {[1..n -> KeyChars] : n \in 0..MaxKeyLen}
\* the value saved: none of the files holds it at a key that is saved to
SettingValues == {3}

\* key_path.split("."): "" gives [""], "a." gives ["a", ""]
RECURSIVE split(_)
split(key_path) ==
    LET dots == {i \in 1..Len(key_path) : key_path[i] = "."}
    IN  IF dots = {} THEN <<key_path>>
        ELSE LET first == CHOOSE i \in dots : \A j \in dots : i <= j
             IN  <<SubSeq(key_path, 1, first - 1)>>
                 \o split(SubSeq(key_path, first + 1, Len(key_path)))

\* the value reached from node along keys, if every step finds a dictionary
\* that has the key
RECURSIVE lookup(_, _)
lookup(node, keys) ==
    IF keys = <<>> THEN Just(node)
    ELSE IF node.kind = "dict" /\ Head(keys) \in DOMAIN node.items
    THEN lookup(node.items[Head(keys)], Tail(keys))
    ELSE Nothing

\* node with the dictionary entry at keys set to new (the dictionaries on
\* the way exist)
RECURSIVE store(_, _, _)
store(node, keys, new) ==
    IF keys = <<>> THEN new
    ELSE Dict([k \in DOMAIN node.items \cup {Head(keys)} |->
                 IF k = Head(keys)
                 THEN store(IF k \in DOMAIN node.items THEN node.items[k]
                            ELSE Dict(<<>>),
                            Tail(keys), new)
                 ELSE node.items[k]])

\* settings.json as shipped or edited, and what load_settings makes of it
SettingsFiles ==
    { Dict(<<>>),
      Dict([k \in {<<"a">>} |-> Leaf(1)]),
      Dict([k \in {<<"a">>} |-> Dict(<<>>)]),
      Dict([k \in {<<"a">>} |-> Dict([j \in {<<"a">>} |-> Leaf(1)])]),
      Dict([k \in {<<>>, <<"a">>} |->
              IF k = <<>> THEN Leaf(2) ELSE Dict([j \in {<<>>} |-> Leaf(1)])]) }

\* load_settings(): the cache if there is one, else the file's content, which
\* becomes the cache; FileNotFoundError without cache and file
load_settings(c, json) ==
    IF c # Nothing THEN Ret(c)
    ELSE IF json = Nothing THEN Raise("FileNotFoundError")
    ELSE Ret(json)

\* the settings a call of load_settings would see
SettingsView == IF cache # Nothing THEN cache ELSE settings_json

\* lines 34-44 of get_setting: the value at the dotted key, or the default
\* None (an empty result)
get_setting(tree, key_path) == Ret(lookup(tree, split(key_path)))

\* lines 68-69 of save_setting: current[k] = {} when k is missing
create_missing(tree, current, k) ==
    IF k \in DOMAIN The(lookup(tree, current)).items THEN tree
    ELSE store(tree, Append(current, k), Dict(<<>>))

\* the value stored in the settings root instead of the dictionary reached
assign_mut(tree, current, key, node) == store(tree, <<key>>, node)

\* line 76: current[keys[-1]] = value
assign(tree, current, key, node) == store(tree, Append(current, key), node)

cfgFrame == <<pc, nameFrame, fn, ret, raw_name, ueVars>>

\* save_setting, lines 61-66
save_setting_call ==
    /\ cfg_pc = "idle"
    /\ cfg_saves < MaxSaves
    /\ \E key_path \in KeyPaths, value \in SettingValues :
         LET loaded == load_settings(cache, settings_json)
             call == [fn |-> "save_setting", key_path |-> key_path,
                      value |-> value, pos |-> 1, current |-> <<>>,
                      entry_view |-> SettingsView, entry_json |-> settings_json,
                      result |-> Ret(<<>>)]
         IN  IF loaded.raised # None
             THEN /\ cfg_call' = [call EXCEPT !.result = loaded]
                  /\ cache' = cache
                  /\ cfg_pc' = "idle"
             ELSE /\ cfg_call' = call
                  /\ cache' = loaded.value
                  /\ cfg_pc' = "save_loop"
    /\ cfg_saves' = cfg_saves + 1
    /\ last_save' = Nothing
    /\ UNCHANGED settings_json
    /\ UNCHANGED cfgFrame

\* save_setting, lines 67-74: one iteration of "for k in keys[:-1]"
save_setting_step ==
    /\ cfg_pc = "save_loop"
    /\ LET keys == split(cfg_call.key_path)
       IN  /\ cfg_call.pos <= Len(keys) - 1
           /\ LET k == keys[cfg_call.pos]
                  created == create_missing(The(cache), cfg_call.current, k)
                  current == The(lookup(created, Append(cfg_call.current, k)))
              IN  /\ cache' = Just(created)
                  /\ IF current.kind # "dict"
                     THEN /\ cfg_call' = [cfg_call EXCEPT !.result = Raise("ValueError")]
                          /\ cfg_pc' = "idle"
                     ELSE /\ cfg_call' = [cfg_call EXCEPT
                                            !.pos = @ + 1,
                                            !.current = Append(@, k)]
                          /\ cfg_pc' = cfg_pc
    /\ UNCHANGED <<settings_json, last_save, cfg_saves>>
    /\ UNCHANGED cfgFrame

\* save_setting, lines 76-86: the value is set in the cache, the settings
\* are dumped to settings.tmp and the file replaces settings.json
save_setting_write ==
    /\ cfg_pc = "save_loop"
    /\ LET keys == split(cfg_call.key_path)
       IN  /\ cfg_call.pos > Len(keys) - 1
           /\ cache' = Just(assign(The(cache), cfg_call.current, keys[Len(keys)],
                                   Leaf(cfg_call.value)))
    /\ \E io_ok \in BOOLEAN :
         IF io_ok
         THEN /\ settings_json' = cache'
              /\ cfg_call' = cfg_call
              /\ last_save' = Just([key_path |-> cfg_call.key_path,
                                    value |-> cfg_call.value])
         ELSE /\ settings_json' = settings_json
              /\ cfg_call' = [cfg_call EXCEPT !.result = Raise("OSError")]
              /\ last_save' = last_save
    /\ cfg_pc' = "idle"
    /\ UNCHANGED cfg_saves
    /\ UNCHANGED cfgFrame

\* get_setting(key_path), lines 34-44
get_setting_call ==
    /\ cfg_pc = "idle"
    /\ \E key_path \in KeyPaths :
         LET loaded == load_settings(cache, settings_json)
             call == [fn |-> "get_setting", key_path |-> key_path,
                      value |-> 0, pos |-> 1, current |-> <<>>,
                      entry_view |-> SettingsView, entry_json |-> settings_json,
                      result |-> Ret(<<>>)]
         IN  IF loaded.raised # None
             THEN /\ cfg_call' = [call EXCEPT !.result = loaded]
                  /\ cache' = cache
             ELSE /\ cfg_call' = [call EXCEPT
                                    !.result = get_setting(The(loaded.value), key_path)]
                  /\ cache' = loaded.value
    /\ UNCHANGED <<settings_json, cfg_pc, last_save, cfg_saves>>
    /\ UNCHANGED cfgFrame

\* reload_settings(), lines 50-52: the cache is cleared, then loaded
reload_settings ==
    /\ cfg_pc = "idle"
    /\ LET loaded == load_settings(Nothing, settings_json)
           call == [fn |-> "reload_settings", key_path |-> <<>>,
                    value |-> 0, pos |-> 1, current |-> <<>>,
                    entry_view |-> SettingsView, entry_json |-> settings_json,
                    result |-> Ret(<<>>)]
       IN  IF loaded.raised # None
           THEN /\ cfg_call' = [call EXCEPT !.result = loaded]
                /\ cache' = Nothing
           ELSE /\ cfg_call' = call
                /\ cache' = loaded.value
    /\ UNCHANGED <<settings_json, cfg_pc, last_save, cfg_saves>>
    /\ UNCHANGED cfgFrame

\* the add-on is loaded: settings.json is there or not, and the cache is
\* empty or holds the file's content
InitConfig ==
    /\ pc = "idle"
    /\ settings = [import_strictness |-> "ERRORS_ONLY", asset_type |-> "PROP_SMALL",
                   export_ext |-> "fbx"]
    /\ obj = Nothing
    /\ selected = {}
    /\ outcomes = <<>>
    /\ rule_idx = 1
    /\ error_items = <<>>
    /\ warning_items = <<>>
    /\ mesh_data = Nothing
    /\ files = <<>>
    /\ popen_calls = <<>>
    /\ report = NoReport
    /\ platform = "linux"
    /\ ctx = [has_obj_type |-> FALSE, obj_type |-> None, materials |-> <<>>,
              images |-> <<>>]
    /\ config = [max_triangles |-> Nothing, max_texture_size |-> Nothing,
                 unit |-> 0]
    /\ mode = "OBJECT"
    /\ mesh_select = "user"
    /\ fn = None
    /\ entry_mode = "OBJECT"
    /\ prev_mode = None
    /\ mode_set_calls = <<>>
    /\ held = 0
    /\ to_mesh_calls = 0
    /\ to_mesh_clear_calls = 0
    /\ pending = Ret(<<>>)
    /\ sock = Nothing
    /\ slot_idx = 1
    /\ materials = <<>>
    /\ ret = Ret(<<>>)
    /\ raw_name = <<>>
    /\ UeUnused
    /\ settings_json \in {Nothing} \cup {Just(t) : t \in SettingsFiles}
    /\ cache \in {Nothing, settings_json}
    /\ cfg_pc = "idle"
    /\ cfg_call = NoCall
    /\ last_save = Nothing
    /\ cfg_saves = 0

NextConfig ==
    \/ save_setting_call
    \/ save_setting_step
    \/ save_setting_write
    \/ get_setting_call
    \/ reload_settings

SpecConfig == InitConfig /\ [][NextConfig]_vars

\* C27: when save_setting raises ValueError, the settings are what a reader
\* saw before the call (no dictionary was added) and settings.json is what
\* it was; and after a save_setting that returned, get_setting of the same
\* key returns the saved value.
C27_SaveAllOrNothing ==
    /\ (cfg_pc = "idle" /\ cfg_call.fn = "save_setting"
        /\ cfg_call.result.raised = "ValueError")
       => /\ cache = cfg_call.entry_view
          /\ settings_json = cfg_call.entry_json
    /\ (cfg_call.fn = "get_setting" /\ last_save # Nothing
        /\ cfg_call.key_path = The(last_save).key_path)
       => cfg_call.result = Ret(<<Leaf(The(last_save).value)>>)

\* save_setting("a.a", 3) raised ValueError on settings whose "a" is 1
C27_Witness ==
    /\ cfg_pc = "idle"
    /\ cfg_call.fn = "save_setting"
    /\ cfg_call.key_path = <<"a", ".", "a">>
    /\ cfg_call.result.raised = "ValueError"
    /\ cache = Just(Dict([k \in {<<"a">>} |-> Leaf(1)]))

\* save_setting("a.a", 3) on empty settings made the dictionary "a" and a
\* following get_setting("a.a") returned 3
C27_SavedThenRead ==
    /\ cfg_call.fn = "get_setting"
    /\ cfg_call.key_path = <<"a", ".", "a">>
    /\ last_save = Just([key_path |-> <<"a", ".", "a">>, value |-> 3])
    /\ cfg_call.entry_json = Just(Dict([k \in {<<"a">>} |->
                                          Dict([j \in {<<"a">>} |-> Leaf(3)])]))
    /\ cfg_call.result = Ret(<<Leaf(3)>>)

\* the engine process was given a manifest path, and the manifest or the
\* geometry file the manifest names is not in the export directory
InputsMissing ==
    /\ ue_pc # "off"
    /\ get_cli_value("manifest", ue_cmd) # Nothing
    /\ \/ The(get_cli_value("manifest", ue_cmd)) \notin DOMAIN files
       \/ The(mesh_data).export.export_path \notin DOMAIN files

\* C28: when the manifest file or the geometry file named by its
\* export.export_path is missing, ingest_asset makes no call into the engine
\* (no folder, no import, no material instance) and ends by raising
\* FileNotFoundError.
C28_FailsBeforeEffects ==
    InputsMissing =>
        /\ ue_calls = <<>>
        /\ ue_pc \in {"main", "ingest_asset", "exited"}
        /\ ue_pc = "exited" => ue_ret = Raise("FileNotFoundError")

\* the manifest was read, the geometry file it names is gone, and
\* ingest_asset has raised
C28_Witness ==
    /\ ue_pc = "exited"
    /\ ue_ret = Raise("FileNotFoundError")
    /\ The(get_cli_value("manifest", ue_cmd)) \in DOMAIN files
    /\ The(mesh_data).export.export_path \notin DOMAIN files
    /\ Len(The(mesh_data).materials) = 2
    /\ ue_calls = <<>>

\* the calls of the material loop, in the order made
MaterialLoopCalls ==
    SelectSeq(ue_calls, LAMBDA c : c.op = "_create_material_instance")

\* C29: when ingest_asset returns, every material of the manifest was
\* attempted once, in list order, whatever happened to the materials before
\* it; and each material whose own processing raised nothing was set on the
\* mesh at its own index.
C29_LoopContinues ==
    (ue_pc = "exited" /\ ue_ret = Ret(<<0>>)) =>
        LET mats == material_data(The(ue_data))
        IN  /\ Len(MaterialLoopCalls) = Len(mats)
            /\ \A i \in 1..Len(mats) :
                  /\ MaterialLoopCalls[i].index = i - 1
                  /\ MaterialLoopCalls[i].name = mats[i].normalized_name
                  /\ (\A k \in 1..Len(ue_calls) :
                         ue_calls[k].index = i - 1 => ue_calls[k].ok)
                     => \E k \in 1..Len(ue_calls) :
                           ue_calls[k] = Call("set_material", mats[i].normalized_name,
                                              i - 1, TRUE)

\* creating the first of two material instances failed, and the second was
\* created and set at index 1
C29_Witness ==
    /\ ue_pc = "exited"
    /\ ue_ret = Ret(<<0>>)
    /\ Len(material_data(The(ue_data))) = 2
    /\ \E k \in 1..Len(ue_calls) :
          /\ ue_calls[k].op = "_create_material_instance"
          /\ ue_calls[k].index = 0
          /\ ~ue_calls[k].ok
    /\ \E k \in 1..Len(ue_calls) :
          /\ ue_calls[k].op = "set_material"
          /\ ue_calls[k].index = 1
          /\ ue_calls[k].ok

====
